---------------------------- MODULE Spec2Model ----------------------------
(***************************************************************************)
(* Model of build_refined_wordbanks.py: the part-of-speech classifier      *)
(* (infer_pos), the candidate aggregator (build_original_wordbank), the    *)
(* review triage (build_pos_review_candidates) and the confirmation        *)
(* pipeline of main (HIGH / MEDIUM confirmation, manual queue, quick-win,  *)
(* manual batch intake, final queue, prefill, batching).                   *)
(*                                                                         *)
(* Text is modelled as a sequence of Unicode code points, so that the      *)
(* character classes of the regular expressions and the string orders of   *)
(* the sorts are the ones of the source.  Scores are kept in exact fixed   *)
(* point, in units of 1/10000 (confidence x 100*stage weight x             *)
(* 100*evidence weight); values rounded to two decimals by the source are  *)
(* kept in units of 1/100.                                                 *)
(***************************************************************************)
EXTENDS Integers, Sequences, FiniteSets, TLC

VARIABLES
  pc,                         \* position of the run
  headword, meaning,          \* arguments of a single infer_pos call
  inferred,                   \* its result
  refined,                    \* the refined master table, in input order
  refined_in,                 \* the same rows in the order first read
  manual_batches_dir,         \* None, or the rows of the batch files in read order
  wordbank,                   \* main: post-aggregation checkpoint
  pos_review,
  pos_high_confirmations, wordbank_high_confirmed,
  pos_medium_confirmations, wordbank_high_medium_confirmed,
  pos_manual_queue, pos_manual_queue_quickwin,
  pos_quickwin_confirmations, wordbank_high_medium_quickwin_confirmed,
  pos_manual_queue_remaining,
  pos_manual_applied, wordbank_final_confirmed, pos_manual_ignored,
  pos_manual_queue_final_remaining, pos_manual_queue_final_prefilled,
  manual_batch_files,         \* the batches written by write_manual_batches
  manual_batch_count,         \* write_manual_batches: the number of batches asked for
  reapplied,                  \* result of a second apply_manual_batch_decisions
  pos_changes                 \* history: the POS writes of the run, in order

vars ==
  <<pc, headword, meaning, inferred, refined, refined_in, manual_batches_dir,
    wordbank, pos_review, pos_high_confirmations, wordbank_high_confirmed,
    pos_medium_confirmations, wordbank_high_medium_confirmed,
    pos_manual_queue, pos_manual_queue_quickwin, pos_quickwin_confirmations,
    wordbank_high_medium_quickwin_confirmed, pos_manual_queue_remaining,
    pos_manual_applied, wordbank_final_confirmed, pos_manual_ignored,
    pos_manual_queue_final_remaining, pos_manual_queue_final_prefilled,
    manual_batch_files, manual_batch_count, reapplied, pos_changes>>

----------------------------------------------------------------------------
(* Text helpers *)

Max(a, b) == IF a >= b THEN a ELSE b
Min(a, b) == IF a <= b THEN a ELSE b

\* t occurs in s at position i
SubSeqAt(s, i, t) ==
  /\ i >= 1
  /\ i + Len(t) - 1 <= Len(s)
  /\ SubSeq(s, i, i + Len(t) - 1) = t

\* Python: t in s
Contains(s, t) == \E i \in 1..(Len(s) - Len(t) + 1) : SubSeqAt(s, i, t)

\* Python: s.endswith(t)
EndsWith(s, t) == SubSeqAt(s, Len(s) - Len(t) + 1, t)

\* Python: a < b on str (code point order)
RECURSIVE StrLess(_, _)
StrLess(a, b) ==
  IF b = <<>> THEN FALSE
  ELSE IF a = <<>> THEN TRUE
  ELSE IF Head(a) # Head(b) THEN Head(a) < Head(b)
  ELSE StrLess(Tail(a), Tail(b))

\* the characters matched by \s and removed by str.strip()
IsSpace(c) ==
  c \in ({9, 10, 11, 12, 13, 28, 29, 30, 31, 32, 133, 160, 5760,
          8232, 8233, 8239, 8287, 12288} \cup (8192..8202))

RECURSIVE LStrip(_, _)
LStrip(s, cs) == IF s # <<>> /\ Head(s) \in cs THEN LStrip(Tail(s), cs) ELSE s

RECURSIVE RStrip(_, _)
RStrip(s, cs) ==
  IF s # <<>> /\ s[Len(s)] \in cs THEN RStrip(SubSeq(s, 1, Len(s) - 1), cs) ELSE s

\* re.sub(r"\s+", " ", text) after the removal of U+FEFF
RECURSIVE CollapseSpaces(_, _, _)
CollapseSpaces(s, i, prevSpace) ==
  IF i > Len(s) THEN <<>>
  ELSE IF s[i] = 65279 THEN CollapseSpaces(s, i + 1, prevSpace)
  ELSE IF IsSpace(s[i])
    THEN (IF prevSpace THEN <<>> ELSE <<32>>) \o CollapseSpaces(s, i + 1, TRUE)
    ELSE <<s[i]>> \o CollapseSpaces(s, i + 1, FALSE)

clean_text(value) == RStrip(LStrip(CollapseSpaces(value, 1, FALSE), {32}), {32})

\* str.lower() on the Latin letters (ASCII and full-width)
LowerChar(c) ==
  IF (c \in 65..90) \/ (c \in 65313..65338) THEN c + 32 ELSE c
Lower(s) == [i \in 1..Len(s) |-> LowerChar(s[i])]

\* unicodedata.normalize("NFKC", .) on the full-width forms U+FF01..U+FF5E;
\* the other characters of the modelled texts are their own NFKC form
NFKCChar(c) == IF c \in 65281..65374 THEN c - 65248 ELSE c
NFKC(s) == [i \in 1..Len(s) |-> NFKCChar(s[i])]

normalize_headword(word) ==
  LET text1 == Lower(NFKC(clean_text(word)))
      text2 == [i \in 1..Len(text1) |->
                  IF text1[i] \in {8217, 96} THEN 39 ELSE text1[i]]
      Kept(c) == (c \in 97..122) \/ (c \in 48..57) \/ (c \in {39, 45, 32})
      text3 == [i \in 1..Len(text2) |-> IF Kept(text2[i]) THEN text2[i] ELSE 32]
      text4 == CollapseSpaces(text3, 1, FALSE)
  IN  RStrip(LStrip(text4, {32, 45, 39}), {32, 45, 39})

has_ascii_letter(text) ==
  \E i \in 1..Len(text) : (text[i] \in 65..90) \/ (text[i] \in 97..122)

is_phrase_headword(word) ==
  LET normalized == Lower(clean_text(word))
  IN  /\ normalized # <<>>
      /\ \E i \in 1..Len(normalized) : normalized[i] \in {32, 126, 47}

RECURSIVE first_alpha_from(_, _)
first_alpha_from(text, i) ==
  IF i > Len(text) THEN 95
  ELSE IF text[i] \in 97..122 THEN text[i]
  ELSE first_alpha_from(text, i + 1)

\* first letter a..z of the text, "_" (95) when there is none
first_alpha(text) == first_alpha_from(text, 1)

sanitize_meaning_short(text, limit) ==
  LET cleaned == clean_text(text)
  IN  IF Len(cleaned) <= limit THEN cleaned
      ELSE RStrip(SubSeq(cleaned, 1, limit - 3), {c \in 0..12288 : IsSpace(c)})
             \o <<46, 46, 46>>

----------------------------------------------------------------------------
(* Program constants *)

POS_ORDER == <<"verb", "noun", "adjective", "adverb", "phrase", "function", "other">>

PosSet == {POS_ORDER[i] : i \in 1..Len(POS_ORDER)}

\* POS_ORDER_INDEX.get(label, 999)
POS_ORDER_INDEX(label) ==
  IF label \in PosSet
    THEN CHOOSE i \in 1..Len(POS_ORDER) : POS_ORDER[i] = label
    ELSE 999

\* POS_LABEL_JA.get(pos, "その他"), the labels written in Latin transcription
POS_LABEL_JA(pos) ==
  CASE pos = "verb" -> "doushi"
    [] pos = "noun" -> "meishi"
    [] pos = "adjective" -> "keiyoushi"
    [] pos = "adverb" -> "fukushi"
    [] pos = "phrase" -> "jukugo"
    [] pos = "function" -> "kinougo"
    [] OTHER -> "sonota"

FUNCTION_WORDS ==
  {
    <<97>>, <<97, 110>>, <<116, 104, 101>>, <<97, 110, 100>>,  \* a an the and
    <<111, 114>>, <<98, 117, 116>>, <<105, 102>>, <<98, 101, 99, 97, 117, 115, 101>>,  \* or but if because
    <<97, 108, 116, 104, 111, 117, 103, 104>>, <<104, 111, 119, 101, 118, 101, 114>>, <<116, 111>>, <<111, 102>>,  \* although however to of
    <<105, 110>>, <<111, 110>>, <<97, 116>>, <<102, 111, 114>>,  \* in on at for
    <<102, 114, 111, 109>>, <<119, 105, 116, 104>>, <<98, 121>>, <<97, 98, 111, 117, 116>>,  \* from with by about
    <<117, 110, 100, 101, 114>>, <<111, 118, 101, 114>>, <<98, 101, 116, 119, 101, 101, 110>>, <<116, 104, 114, 111, 117, 103, 104>>,  \* under over between through
    <<100, 117, 114, 105, 110, 103>>, <<119, 105, 116, 104, 111, 117, 116>>, <<98, 101, 102, 111, 114, 101>>, <<97, 102, 116, 101, 114>>,  \* during without before after
    <<105, 110, 116, 111>>, <<117, 112, 111, 110>>, <<97, 115>>, <<116, 104, 97, 116>>,  \* into upon as that
    <<116, 104, 105, 115>>, <<116, 104, 101, 115, 101>>, <<116, 104, 111, 115, 101>>, <<119, 104, 105, 99, 104>>,  \* this these those which
    <<119, 104, 111>>, <<119, 104, 111, 109>>, <<119, 104, 111, 115, 101>>, <<119, 104, 97, 116>>,  \* who whom whose what
    <<119, 104, 101, 110>>, <<119, 104, 101, 114, 101>>, <<119, 104, 121>>, <<104, 111, 119>>,  \* when where why how
    <<105>>, <<109, 101>>, <<109, 121>>, <<109, 105, 110, 101>>,  \* i me my mine
    <<109, 121, 115, 101, 108, 102>>, <<121, 111, 117>>, <<121, 111, 117, 114>>, <<121, 111, 117, 114, 115>>,  \* myself you your yours
    <<121, 111, 117, 114, 115, 101, 108, 102>>, <<121, 111, 117, 114, 115, 101, 108, 118, 101, 115>>, <<104, 101>>, <<104, 105, 109>>,  \* yourself yourselves he him
    <<104, 105, 115>>, <<104, 105, 109, 115, 101, 108, 102>>, <<115, 104, 101>>, <<104, 101, 114>>,  \* his himself she her
    <<104, 101, 114, 115>>, <<104, 101, 114, 115, 101, 108, 102>>, <<105, 116>>, <<105, 116, 115>>,  \* hers herself it its
    <<105, 116, 115, 101, 108, 102>>, <<119, 101>>, <<117, 115>>, <<111, 117, 114>>,  \* itself we us our
    <<111, 117, 114, 115>>, <<111, 117, 114, 115, 101, 108, 118, 101, 115>>, <<116, 104, 101, 121>>, <<116, 104, 101, 109>>,  \* ours ourselves they them
    <<116, 104, 101, 105, 114>>, <<116, 104, 101, 105, 114, 115>>, <<116, 104, 101, 109, 115, 101, 108, 118, 101, 115>>, <<97, 110, 121>>,  \* their theirs themselves any
    <<115, 111, 109, 101>>, <<109, 97, 110, 121>>, <<109, 117, 99, 104>>, <<97, 108, 108>>,  \* some many much all
    <<97, 110, 111, 116, 104, 101, 114>>, <<101, 105, 116, 104, 101, 114>>, <<110, 101, 105, 116, 104, 101, 114>>, <<98, 111, 116, 104>>,  \* another either neither both
    <<101, 97, 99, 104>>, <<102, 101, 119>>, <<109, 111, 114, 101>>, <<109, 111, 115, 116>>,  \* each few more most
    <<108, 101, 115, 115>>  \* less
  }

ADVERB_HEADWORDS ==
  {
    <<97, 108, 109, 111, 115, 116>>, <<97, 108, 114, 101, 97, 100, 121>>, <<97, 108, 115, 111>>, <<97, 108, 119, 97, 121, 115>>,  \* almost already also always
    <<97, 119, 97, 121>>, <<101, 118, 101, 114>>, <<104, 97, 114, 100, 108, 121>>, <<104, 101, 114, 101>>,  \* away ever hardly here
    <<104, 111, 119, 101, 118, 101, 114>>, <<106, 117, 115, 116>>, <<109, 97, 121, 98, 101>>, <<110, 101, 118, 101, 114>>,  \* however just maybe never
    <<111, 102, 116, 101, 110>>, <<111, 110, 99, 101>>, <<112, 101, 114, 104, 97, 112, 115>>, <<113, 117, 105, 116, 101>>,  \* often once perhaps quite
    <<114, 97, 116, 104, 101, 114>>, <<114, 101, 97, 108, 108, 121>>, <<115, 105, 109, 112, 108, 121>>, <<115, 111, 109, 101, 116, 105, 109, 101, 115>>,  \* rather really simply sometimes
    <<115, 111, 111, 110>>, <<115, 116, 105, 108, 108>>, <<116, 104, 101, 114, 101>>, <<116, 104, 101, 114, 101, 102, 111, 114, 101>>,  \* soon still there therefore
    <<116, 104, 117, 115>>, <<116, 111, 103, 101, 116, 104, 101, 114>>, <<116, 111, 109, 111, 114, 114, 111, 119>>, <<116, 111, 111>>,  \* thus together tomorrow too
    <<116, 119, 105, 99, 101>>, <<117, 115, 117, 97, 108, 108, 121>>, <<118, 101, 114, 121>>, <<119, 101, 108, 108>>,  \* twice usually very well
    <<121, 101, 115, 116, 101, 114, 100, 97, 121>>, <<121, 101, 116>>  \* yesterday yet
  }

ADJECTIVE_HEADWORDS ==
  {
    <<97, 102, 114, 97, 105, 100>>, <<97, 108, 105, 118, 101>>, <<97, 115, 108, 101, 101, 112>>, <<97, 119, 97, 107, 101>>,  \* afraid alive asleep awake
    <<103, 108, 97, 100>>, <<108, 105, 107, 101, 108, 121>>, <<117, 110, 97, 98, 108, 101>>, <<97, 118, 97, 105, 108, 97, 98, 108, 101>>,  \* glad likely unable available
    <<114, 101, 115, 112, 111, 110, 115, 105, 98, 108, 101>>  \* responsible
  }

NOUN_SUFFIXES ==
  <<
    <<116, 105, 111, 110>>,  \* tion
    <<115, 105, 111, 110>>,  \* sion
    <<109, 101, 110, 116>>,  \* ment
    <<110, 101, 115, 115>>,  \* ness
    <<105, 116, 121>>,  \* ity
    <<101, 110, 99, 101>>,  \* ence
    <<97, 110, 99, 101>>,  \* ance
    <<115, 104, 105, 112>>,  \* ship
    <<104, 111, 111, 100>>,  \* hood
    <<105, 115, 109>>,  \* ism
    <<105, 115, 116>>,  \* ist
    <<101, 114>>,  \* er
    <<111, 114>>,  \* or
    <<97, 103, 101>>  \* age
  >>

ADJECTIVE_SUFFIXES ==
  <<
    <<111, 117, 115>>,  \* ous
    <<102, 117, 108>>,  \* ful
    <<105, 118, 101>>,  \* ive
    <<97, 108>>,  \* al
    <<97, 98, 108, 101>>,  \* able
    <<105, 98, 108, 101>>,  \* ible
    <<105, 99>>,  \* ic
    <<105, 99, 97, 108>>,  \* ical
    <<108, 101, 115, 115>>,  \* less
    <<105, 115, 104>>  \* ish
  >>

VERB_SUFFIXES ==
  <<
    <<97, 116, 101>>,  \* ate
    <<105, 102, 121>>,  \* ify
    <<105, 115, 101>>,  \* ise
    <<105, 122, 101>>,  \* ize
    <<101, 110>>  \* en
  >>

ADVERB_EXCEPTIONS ==
  {
    <<102, 114, 105, 101, 110, 100, 108, 121>>, <<108, 105, 107, 101, 108, 121>>, <<108, 105, 118, 101, 108, 121>>, <<108, 111, 110, 101, 108, 121>>,  \* friendly likely lively lonely
    <<108, 111, 118, 101, 108, 121>>, <<115, 105, 108, 108, 121>>, <<117, 103, 108, 121>>, <<101, 97, 114, 108, 121>>,  \* lovely silly ugly early
    <<99, 111, 115, 116, 108, 121>>  \* costly
  }

VERB_SUFFIX_EXCEPTIONS ==
  {
    <<100, 97, 116, 101>>, <<115, 116, 97, 116, 101>>, <<114, 97, 116, 101>>, <<108, 97, 116, 101>>,  \* date state rate late
    <<112, 108, 97, 116, 101>>, <<109, 97, 116, 101>>, <<112, 114, 105, 118, 97, 116, 101>>, <<99, 108, 105, 109, 97, 116, 101>>  \* plate mate private climate
  }

MISSING_TOKENS ==
  {
    <<>>,  \* 
    <<91, 26410, 25277, 20986, 93>>,  \* [未抽出]
    <<110, 97, 110>>,  \* nan
    <<78, 97, 78>>,  \* NaN
    <<78, 111, 110, 101>>  \* None
  }

STAGE_RULES ==
  <<
    [stage |-> 1, label |-> "JHS_Foundation", keywords |-> <<
        <<33521, 26908, 32, 53, 32026>>,  \* 英検 5級
        <<33521, 26908, 32, 52, 32026>>,  \* 英検 4級
        <<33521, 26908, 32, 51, 32026>>,  \* 英検 3級
        <<36895, 35501, 33521, 21336, 35486, 32, 20013, 23398, 29256>>,  \* 速読英単語 中学版
        <<33521, 21336, 35486, 12479, 12540, 12466, 12483, 12488, 49, 50, 48, 48>>,  \* 英単語ターゲット1200
        <<12518, 12513, 12479, 12531, 40644>>  \* ユメタン黄
      >>],
    [stage |-> 2, label |-> "HS_Basic", keywords |-> <<
        <<33521, 26908, 32, 28310, 50, 32026>>,  \* 英検 準2級
        <<33521, 26908, 32, 28310, 50, 32026, 32, 12503, 12521, 12473>>,  \* 英検 準2級 プラス
        <<12471, 12473, 12486, 12512, 33521, 21336, 35486, 32, 66, 65, 83, 73, 67>>,  \* システム英単語 BASIC
        <<33521, 21336, 35486, 12479, 12540, 12466, 12483, 12488, 49, 52, 48, 48>>,  \* 英単語ターゲット1400
        <<36895, 35501, 33521, 21336, 35486, 32, 20837, 38272, 32232>>,  \* 速読英単語 入門編
        <<33521, 21336, 35486, 83, 116, 111, 99, 107, 51, 48, 48, 48>>,  \* 英単語Stock3000
        <<12518, 12513, 12479, 12531, 36196>>,  \* ユメタン赤
        <<33521, 29087, 35486, 12479, 12540, 12466, 12483, 12488, 49, 48, 48, 48>>  \* 英熟語ターゲット1000
      >>],
    [stage |-> 3, label |-> "HS_Core", keywords |-> <<
        <<33521, 26908, 32, 50, 32026>>,  \* 英検 2級
        <<12471, 12473, 12486, 12512, 33521, 21336, 35486, 32, 53, 35330, 29256>>,  \* システム英単語 5訂版
        <<33521, 21336, 35486, 12479, 12540, 12466, 12483, 12488, 49, 57, 48, 48>>,  \* 英単語ターゲット1900
        <<68, 85, 79, 51, 46, 48>>,  \* DUO3.0
        <<24517, 25658, 33521, 21336, 35486, 76, 69, 65, 80>>,  \* 必携英単語LEAP
        <<36895, 35501, 33521, 21336, 35486, 32, 24517, 20462, 32232>>,  \* 速読英単語 必修編
        <<33521, 21336, 35486, 83, 116, 111, 99, 107, 52, 53, 48, 48>>,  \* 英単語Stock4500
        <<12518, 12513, 12479, 12531, 38738>>,  \* ユメタン青
        <<12481, 12515, 12531, 12463, 12391, 33521, 21336, 35486, 32, 83, 116, 97, 110, 100, 97, 114, 100>>  \* チャンクで英単語 Standard
      >>],
    [stage |-> 4, label |-> "HS_Advanced", keywords |-> <<
        <<33521, 26908, 32, 28310, 49, 32026>>,  \* 英検 準1級
        <<33521, 26908, 28310, 49, 32026, 21336, 29087, 35486, 69, 88>>,  \* 英検準1級単熟語EX
        <<33521, 26908, 32, 49, 32026>>,  \* 英検 1級
        <<84, 79, 69, 70, 76>>,  \* TOEFL
        <<84, 79, 69, 73, 67>>,  \* TOEIC
        <<35441, 38988, 21029, 33521, 21336, 35486, 12522, 12531, 12460, 12513, 12479, 12522, 12459>>,  \* 話題別英単語リンガメタリカ
        <<36895, 35501, 33521, 21336, 35486, 32, 19978, 32026, 32232>>,  \* 速読英単語 上級編
        <<37444, 32209, 20250>>,  \* 鉄緑会
        <<12467, 12540, 12497, 12473, 52, 53, 48, 48>>,  \* コーパス4500
        <<12518, 12513, 12472, 12517, 12463>>  \* ユメジュク
      >>]
  >>

GRADE_BUCKET_RULES_ACCELERATED ==
  <<
    [id |-> "G7_JHS1", order |-> 1, keywords |-> <<
        <<33521, 26908, 32, 53, 32026>>,  \* 英検 5級
        <<33521, 26908, 32, 52, 32026>>,  \* 英検 4級
        <<36895, 35501, 33521, 21336, 35486, 32, 20013, 23398, 29256>>,  \* 速読英単語 中学版
        <<33521, 21336, 35486, 12479, 12540, 12466, 12483, 12488, 49, 50, 48, 48>>,  \* 英単語ターゲット1200
        <<12518, 12513, 12479, 12531, 40644>>  \* ユメタン黄
      >>],
    [id |-> "G8_JHS2", order |-> 2, keywords |-> <<
        <<33521, 26908, 32, 51, 32026>>,  \* 英検 3級
        <<36895, 35501, 33521, 21336, 35486, 32, 20013, 23398, 29256>>,  \* 速読英単語 中学版
        <<33521, 21336, 35486, 12479, 12540, 12466, 12483, 12488, 49, 50, 48, 48>>  \* 英単語ターゲット1200
      >>],
    [id |-> "G9_JHS3", order |-> 3, keywords |-> <<
        <<33521, 26908, 32, 28310, 50, 32026>>,  \* 英検 準2級
        <<33521, 26908, 32, 28310, 50, 32026, 32, 12503, 12521, 12473>>,  \* 英検 準2級 プラス
        <<33521, 21336, 35486, 12479, 12540, 12466, 12483, 12488, 49, 52, 48, 48>>,  \* 英単語ターゲット1400
        <<12471, 12473, 12486, 12512, 33521, 21336, 35486, 32, 66, 65, 83, 73, 67>>,  \* システム英単語 BASIC
        <<33521, 21336, 35486, 83, 116, 111, 99, 107, 51, 48, 48, 48>>,  \* 英単語Stock3000
        <<12518, 12513, 12479, 12531, 36196>>  \* ユメタン赤
      >>],
    [id |-> "G10_HS1", order |-> 4, keywords |-> <<
        <<33521, 26908, 32, 50, 32026>>,  \* 英検 2級
        <<12471, 12473, 12486, 12512, 33521, 21336, 35486, 32, 53, 35330, 29256>>,  \* システム英単語 5訂版
        <<33521, 21336, 35486, 12479, 12540, 12466, 12483, 12488, 49, 57, 48, 48>>,  \* 英単語ターゲット1900
        <<68, 85, 79, 51, 46, 48>>,  \* DUO3.0
        <<24517, 25658, 33521, 21336, 35486, 76, 69, 65, 80>>,  \* 必携英単語LEAP
        <<36895, 35501, 33521, 21336, 35486, 32, 24517, 20462, 32232>>,  \* 速読英単語 必修編
        <<33521, 21336, 35486, 83, 116, 111, 99, 107, 52, 53, 48, 48>>,  \* 英単語Stock4500
        <<12518, 12513, 12479, 12531, 38738>>,  \* ユメタン青
        <<33521, 29087, 35486, 12479, 12540, 12466, 12483, 12488, 49, 48, 48, 48>>,  \* 英熟語ターゲット1000
        <<12481, 12515, 12531, 12463, 12391, 33521, 21336, 35486, 32, 83, 116, 97, 110, 100, 97, 114, 100>>  \* チャンクで英単語 Standard
      >>],
    [id |-> "G11_HS2", order |-> 5, keywords |-> <<
        <<33521, 26908, 32, 28310, 49, 32026>>,  \* 英検 準1級
        <<33521, 26908, 28310, 49, 32026, 21336, 29087, 35486, 69, 88>>,  \* 英検準1級単熟語EX
        <<84, 79, 69, 73, 67>>,  \* TOEIC
        <<35441, 38988, 21029, 33521, 21336, 35486, 12522, 12531, 12460, 12513, 12479, 12522, 12459>>  \* 話題別英単語リンガメタリカ
      >>],
    [id |-> "G12_HS3", order |-> 6, keywords |-> <<
        <<33521, 26908, 32, 49, 32026>>,  \* 英検 1級
        <<84, 79, 69, 70, 76>>,  \* TOEFL
        <<36895, 35501, 33521, 21336, 35486, 32, 19978, 32026, 32232>>,  \* 速読英単語 上級編
        <<37444, 32209, 20250>>,  \* 鉄緑会
        <<12467, 12540, 12497, 12473, 52, 53, 48, 48>>,  \* コーパス4500
        <<12518, 12513, 12472, 12517, 12463>>  \* ユメジュク
      >>]
  >>

\* 100 * STAGE_POS_WEIGHT.get(stage, 1.0)
STAGE_POS_WEIGHT(stage) ==
  CASE stage = 1 -> 125
    [] stage = 2 -> 115
    [] stage = 3 -> 100
    [] stage = 4 -> 90
    [] OTHER -> 100

\* 100 * POS_EVIDENCE_WEIGHT.get(evidence, 1.0)
POS_EVIDENCE_WEIGHT(evidence) ==
  CASE evidence = "phrase_pattern" -> 135
    [] evidence = "function_word_list" -> 130
    [] evidence \in {"explicit_tag:noun", "explicit_tag:verb",
                     "explicit_tag:adjective", "explicit_tag:adverb"} -> 128
    [] evidence \in {"explicit_primary_tag:verb", "explicit_primary_tag:adjective",
                     "explicit_primary_tag:adverb"} -> 122
    [] evidence = "headword_adverb_list" -> 130
    [] evidence = "headword_adjective_list" -> 125
    [] evidence = "meaning_gerund_noun" -> 120
    [] evidence = "meaning_dict_form_verb" -> 118
    [] evidence = "meaning_dict_form_adjective" -> 116
    [] evidence = "meaning_dict_form_adverb" -> 112
    [] evidence = "meaning_contains_suru" -> 120
    [] evidence = "meaning_adjective_marker" -> 115
    [] evidence = "meaning_adverb_marker" -> 115
    [] evidence = "suffix_ly" -> 110
    [] evidence = "noun_suffix" -> 108
    [] evidence = "adjective_suffix" -> 108
    [] evidence = "verb_suffix" -> 102
    [] evidence = "meaning_noun_marker" -> 100
    [] evidence = "fallback_noun" -> 85
    [] OTHER -> 100

POS_REVIEW_CONFIDENCE_THRESHOLD == 70
\* 35.0, in units of 1/100
POS_REVIEW_MARGIN_THRESHOLD == 3500

----------------------------------------------------------------------------
(* Gloss analyzer *)

OpenBrackets == {91, 40, 65288, 12304}     \* [ ( fullwidth-( and the lenticular bracket
CloseBrackets == {93, 41, 65289, 12305}

\* the labels of the compact tags removed by extract_first_gloss:
\* noun verb adjective adverb transitive intransitive preposition conjunction
\* pronoun auxiliary countable uncountable
GlossTagLabels ==
  {<<21517>>, <<21205>>, <<24418>>, <<21103>>, <<20182>>, <<33258>>, <<21069>>,
   <<25509>>, <<20195>>, <<21161>>, <<21487, 31639>>, <<19981, 21487, 31639>>}

\* [0-9] and the circled digits 1..10
IsCountChar(c) == (c \in 48..57) \/ (c \in 9312..9321)

\* length of the match of [\[\(（【](label)[\]\)）】] at position i, 0 if none
TagMatchLen(s, i) ==
  IF i <= Len(s) /\ s[i] \in OpenBrackets
    THEN LET matched == {L \in GlossTagLabels :
                          SubSeqAt(s, i + 1, L) /\ i + Len(L) + 1 <= Len(s)
                            /\ s[i + Len(L) + 1] \in CloseBrackets}
         IN  IF matched = {} THEN 0 ELSE Len(CHOOSE L \in matched : TRUE) + 2
    ELSE 0

RECURSIVE RunLen(_, _, _)
\* length of the longest run of count characters (kind 1) or spaces (kind 2) from i
RunLen(s, i, kind) ==
  IF i <= Len(s) /\ ((kind = 1 /\ IsCountChar(s[i])) \/ (kind = 2 /\ IsSpace(s[i])))
    THEN 1 + RunLen(s, i + 1, kind)
    ELSE 0

\* length of the match of [\[\(（【][0-9①-⑩]+\s*[\]\)）】] at position i, 0 if none
CountMatchEnd(s, i, d, j) ==
  IF d >= 1 /\ j <= Len(s) /\ s[j] \in CloseBrackets THEN j - i + 1 ELSE 0
CountMatchFrom(s, i, d) == CountMatchEnd(s, i, d, i + 1 + d + RunLen(s, i + 1 + d, 2))
CountMatchLen(s, i) ==
  IF i <= Len(s) /\ s[i] \in OpenBrackets
    THEN CountMatchFrom(s, i, RunLen(s, i + 1, 1))
    ELSE 0

RECURSIVE SubTags(_, _)
RECURSIVE SubTagsStep(_, _, _)
\* re.sub of the compact tags by a space, from position i
SubTags(s, i) == IF i > Len(s) THEN <<>> ELSE SubTagsStep(s, i, TagMatchLen(s, i))
SubTagsStep(s, i, n) ==
  IF n > 0 THEN <<32>> \o SubTags(s, i + n) ELSE <<s[i]>> \o SubTags(s, i + 1)

RECURSIVE SubCounts(_, _)
RECURSIVE SubCountsStep(_, _, _)
\* re.sub of the bracketed counters by a space, from position i
SubCounts(s, i) == IF i > Len(s) THEN <<>> ELSE SubCountsStep(s, i, CountMatchLen(s, i))
SubCountsStep(s, i, n) ==
  IF n > 0 THEN <<32>> \o SubCounts(s, i + n) ELSE <<s[i]>> \o SubCounts(s, i + 1)

RECURSIVE SplitOn(_, _, _)
\* re.split on a set of single characters: the pieces of s, cur being the open piece
SplitOn(s, seps, cur) ==
  IF s = <<>> THEN <<cur>>
  ELSE IF Head(s) \in seps THEN <<cur>> \o SplitOn(Tail(s), seps, <<>>)
  ELSE SplitOn(Tail(s), seps, Append(cur, Head(s)))

RECURSIVE LStripLead(_)
\* re.sub(r"^[0-9①-⑩\-\.\s]+", "", part)
LStripLead(s) ==
  IF s # <<>> /\ (IsCountChar(Head(s)) \/ Head(s) \in {45, 46} \/ IsSpace(Head(s)))
    THEN LStripLead(Tail(s))
    ELSE s

RECURSIVE FirstToken(_)
RECURSIVE FirstTokenStep(_, _)
\* the first part that is not empty once its leading counters are removed
FirstToken(parts) ==
  IF parts = <<>> THEN <<>>
  ELSE FirstTokenStep(parts, clean_text(LStripLead(Head(parts))))
FirstTokenStep(parts, token) == IF token # <<>> THEN token ELSE FirstToken(Tail(parts))

\* re.sub(r"[；;/]", "、", .)
UnifySeparators(s) ==
  [i \in 1..Len(s) |-> IF s[i] \in {65307, 59, 47} THEN 12289 ELSE s[i]]

\* [clean_text(p) for p in pieces if clean_text(p)]
CleanParts(pieces) ==
  SelectSeq([i \in 1..Len(pieces) |-> clean_text(pieces[i])], LAMBDA p : p # <<>>)

\* the end of extract_first_gloss: the first token, else the first part
PickGloss(parts, token) ==
  IF token # <<>> THEN token
  ELSE IF parts # <<>> THEN clean_text(parts[1])
  ELSE <<>>

GlossOfParts(parts) == PickGloss(parts, FirstToken(parts))

GlossOfCleaned(cleaned) ==
  IF cleaned = <<>> THEN <<>>
  ELSE GlossOfParts(CleanParts(SplitOn(UnifySeparators(SubCounts(SubTags(cleaned, 1), 1)),
                                        {12289, 44}, <<>>)))

extract_first_gloss(text) == GlossOfCleaned(clean_text(text))

\* POS_TAG_PATTERNS: the tag of pos, in lenticular, square or round brackets
TagLabelsOf(pos) ==
  CASE pos = "noun" -> {21517}
    [] pos = "verb" -> {21205, 20182, 33258}
    [] pos = "adjective" -> {24418}
    [] pos = "adverb" -> {21103}
    [] OTHER -> {}

TagAt(s, i, pos) ==
  /\ i + 2 <= Len(s)
  /\ s[i + 1] \in TagLabelsOf(pos)
  /\ <<s[i], s[i + 2]>> \in {<<12304, 12305>>, <<91, 93>>, <<40, 41>>}

TaggedPos == {"noun", "verb", "adjective", "adverb"}

RECURSIVE ScanTags(_, _, _)
RECURSIVE ScanTagsStep(_, _, _, _)
\* the POS of the tags in order of their start position, without repetition
ScanTags(s, i, seen) ==
  IF i > Len(s) THEN <<>>
  ELSE ScanTagsStep(s, i, seen, {p \in TaggedPos : TagAt(s, i, p)})
ScanTagsStep(s, i, seen, found) ==
  IF found = {} \/ found \subseteq seen THEN ScanTags(s, i + 1, seen)
  ELSE <<CHOOSE p \in found : TRUE>> \o ScanTags(s, i + 1, seen \cup found)

parse_explicit_pos_tags(text) == ScanTags(clean_text(text), 1, {})

----------------------------------------------------------------------------
(* POS classifier *)

\* [ぁ-んァ-ヶ一-龠]
IsJp(c) == (c \in 12353..12435) \/ (c \in 12449..12534) \/ (c \in 19968..40864)

\* the characters of [、,・;/()（）\\s] in the raw-string patterns: the two
\* characters \\ and s of the pattern text stand for a backslash and the letter s
IsBoundary(c) == c \in {12289, 44, 12539, 59, 47, 40, 41, 65288, 65289, 92, 115}

\* re.search(r"C{lo,hi}T$", s) for a character class C and a set of endings T
EndsWithRun(s, InClass(_), lo, hi, tails) ==
  \E t \in tails : \E k \in lo..hi :
    /\ EndsWith(s, t)
    /\ Len(s) - Len(t) - k >= 0
    /\ \A j \in (Len(s) - Len(t) - k + 1)..(Len(s) - Len(t)) : InClass(s[j])

\* re.search(r"(?:^|[B])C{lo,hi}(T)(?:$|[B])", s), B the boundary characters
BoundedRun(s, InClass(_), lo, hi, toks) ==
  \E i \in 0..Len(s) : \E k \in lo..hi : \E t \in toks :
    /\ (i = 0) \/ IsBoundary(s[i])
    /\ i + k <= Len(s)
    /\ \A j \in (i + 1)..(i + k) : InClass(s[j])
    /\ SubSeqAt(s, i + k + 1, t)
    /\ (i + k + Len(t) = Len(s)) \/ IsBoundary(s[i + k + Len(t) + 1])

NotBoundary(c) == ~IsBoundary(c)

VerbEndings ==
  {<<12427>>, <<12358>>, <<12367>>, <<12377>>, <<12388>>, <<12396>>, <<12416>>,
   <<12406>>, <<12368>>}
NominalEndings == {<<12418, 12398>>, <<12371, 12392>>, <<12383, 12417>>}
AdjectiveHomographEndings ==
  {<<31069, 12356>>, <<24605, 12356>>, <<36949, 12356>>, <<25126, 12356>>,
   <<20105, 12356>>, <<39000, 12356>>, <<31048, 12426>>}
SuruTokens == {<<12377, 12427>>, <<12395, 12394, 12427>>, <<12373, 12379, 12427>>}
NounMarkers ==
  {<<20154>>, <<29289>>, <<12371, 12392>>, <<29366, 24907>>, <<34892, 28858>>,
   <<24615>>, <<21147>>}

AnySuffix(w, suffixes) == \E i \in 1..Len(suffixes) : EndsWith(w, suffixes[i])

Result(pos, conf, evidence) == [pos |-> pos, conf |-> conf, evidence |-> evidence]

\* m.replace of the wave dash by the full-width tilde
NormTilde(m) == [i \in 1..Len(m) |-> IF m[i] = 12316 THEN 65374 ELSE m[i]]

\* the cascade of infer_pos on w, m_norm, gloss and explicit_tags
InferCascade(w, m_norm, gloss, explicit_tags) ==
  IF w = <<>> THEN Result("other", 0, "empty_word")
  ELSE IF is_phrase_headword(w) THEN Result("phrase", 95, "phrase_pattern")
  ELSE IF w \in FUNCTION_WORDS THEN Result("function", 95, "function_word_list")
  ELSE IF Len(explicit_tags) = 1
    THEN Result(explicit_tags[1], 94, "explicit_tag:" \o explicit_tags[1])
  ELSE IF Len(explicit_tags) >= 2 /\ explicit_tags[1] # "noun"
    THEN Result(explicit_tags[1], 90, "explicit_primary_tag:" \o explicit_tags[1])
  ELSE IF w \in ADVERB_HEADWORDS THEN Result("adverb", 92, "headword_adverb_list")
  ELSE IF w \in ADJECTIVE_HEADWORDS
    THEN Result("adjective", 90, "headword_adjective_list")
  ELSE IF gloss # <<>> /\ EndsWithRun(gloss, IsJp, 1, 14, {<<12394>>})
    THEN Result("adjective", 86, "meaning_dict_form_adjective")
  ELSE IF gloss # <<>> /\ EndsWithRun(gloss, IsJp, 1, 14, {<<12395>>})
    THEN Result("adverb", 83, "meaning_dict_form_adverb")
  ELSE IF /\ gloss # <<>>
          /\ EndsWithRun(gloss, IsJp, 1, 16, VerbEndings)
          /\ ~\E t \in NominalEndings : EndsWith(gloss, t)
    THEN Result("verb", 84, "meaning_dict_form_verb")
  ELSE IF /\ gloss # <<>>
          /\ EndsWithRun(gloss, IsJp, 2, 14, {<<12356>>})
          /\ ~\E t \in AdjectiveHomographEndings : EndsWith(gloss, t)
    THEN Result("adjective", 78, "meaning_dict_form_adjective")
  ELSE IF Contains(m_norm, <<12377, 12427, 12371, 12392>>)
    THEN Result("noun", 82, "meaning_gerund_noun")
  ELSE IF BoundedRun(m_norm, NotBoundary, 0, 8, SuruTokens)
    THEN Result("verb", 88, "meaning_contains_suru")
  ELSE IF \/ Contains(m_norm, <<30340, 12394>>)
          \/ BoundedRun(m_norm, IsJp, 1, 10, {<<12394>>})
    THEN Result("adjective", 84, "meaning_adjective_marker")
  ELSE IF \/ Contains(m_norm, <<30340, 12395>>)
          \/ BoundedRun(m_norm, IsJp, 1, 10, {<<12395>>})
    THEN Result("adverb", 82, "meaning_adverb_marker")
  ELSE IF EndsWith(w, <<108, 121>>) /\ w \notin ADVERB_EXCEPTIONS
    THEN Result("adverb", 80, "suffix_ly")
  ELSE IF AnySuffix(w, NOUN_SUFFIXES) THEN Result("noun", 76, "noun_suffix")
  ELSE IF AnySuffix(w, ADJECTIVE_SUFFIXES)
    THEN Result("adjective", 74, "adjective_suffix")
  ELSE IF /\ Len(w) >= 6
          /\ w \notin VERB_SUFFIX_EXCEPTIONS
          /\ AnySuffix(w, VERB_SUFFIXES)
    THEN Result("verb", 70, "verb_suffix")
  ELSE IF \E t \in NounMarkers : Contains(m_norm, t)
    THEN Result("noun", 65, "meaning_noun_marker")
  ELSE Result("noun", 45, "fallback_noun")

InferFrom(w, m_norm) ==
  InferCascade(w, m_norm, extract_first_gloss(m_norm), parse_explicit_pos_tags(m_norm))

\* infer_pos without clean_text on the headword: a blank headword is then
\* classified like a word
infer_pos_uncleaned(hw, mng) == InferFrom(Lower(hw), NormTilde(clean_text(mng)))

infer_pos(hw, mng) == InferFrom(Lower(clean_text(hw)), NormTilde(clean_text(mng)))

\* the cascade of infer_pos_from_meaning_markers, "" for None
MarkerCascade(m_norm, explicit_tags) ==
  IF m_norm = <<>> THEN ""
  ELSE IF Len(explicit_tags) = 1 THEN explicit_tags[1]
  ELSE IF Len(explicit_tags) >= 2 /\ explicit_tags[1] # "noun" THEN explicit_tags[1]
  ELSE IF Contains(m_norm, <<12377, 12427, 12371, 12392>>) THEN "noun"
  ELSE IF BoundedRun(m_norm, NotBoundary, 0, 8, SuruTokens) THEN "verb"
  ELSE IF \/ Contains(m_norm, <<30340, 12394>>)
          \/ BoundedRun(m_norm, IsJp, 1, 10, {<<12394>>})
    THEN "adjective"
  ELSE IF \/ Contains(m_norm, <<30340, 12395>>)
          \/ BoundedRun(m_norm, IsJp, 1, 10, {<<12395>>})
    THEN "adverb"
  ELSE ""

MarkersFrom(m_norm) == MarkerCascade(m_norm, parse_explicit_pos_tags(m_norm))

infer_pos_from_meaning_markers(mng) == MarkersFrom(NormTilde(clean_text(mng)))
Headwords ==
  {
    <<>>,  \* (empty)
    <<32>>,  \* (one space)
    <<114, 117, 110>>,  \* run
    <<104, 97, 112, 112, 121>>,  \* happy
    <<113, 117, 105, 99, 107, 108, 121>>,  \* quickly
    <<108, 111, 111, 107, 32, 97, 102, 116, 101, 114>>,  \* look after
    <<116, 104, 101>>,  \* the
    <<119, 101, 108, 108>>,  \* well
    <<103, 108, 97, 100>>,  \* glad
    <<115, 116, 117, 100, 121>>,  \* study
    <<111, 112, 101, 114, 97, 116, 101>>,  \* operate
    <<115, 116, 97, 116, 105, 111, 110>>,  \* station
    <<102, 97, 109, 111, 117, 115>>,  \* famous
    <<112, 114, 105, 118, 97, 116, 101>>,  \* private
    <<101, 97, 114, 108, 121>>,  \* early
    <<82, 117, 110>>,  \* Run
    <<111, 112, 101, 114, 97, 116, 101, 46>>  \* operate.
  }

Glosses ==
  {
    <<>>,  \* (empty)
    <<36208, 12427>>,  \* 走る
    <<36208, 12427, 12371, 12392>>,  \* 走ること
    <<24184, 12379, 12394>>,  \* 幸せな
    <<38745, 12363, 12395>>,  \* 静かに
    <<32654, 12375, 12356>>,  \* 美しい
    <<25126, 12356>>,  \* 戦い
    <<21193, 24375, 12377, 12427>>,  \* 勉強する
    <<21193, 24375, 12377, 12427, 12371, 12392>>,  \* 勉強すること
    <<36208, 34892, 12289, 36939, 36578, 12377, 12427>>,  \* 走行、運転する
    <<19968, 33324, 30340, 12394, 32771, 12360>>,  \* 一般的な考え
    <<19968, 33324, 30340, 12395, 12399>>,  \* 一般的には
    <<12304, 21205, 12305, 36208, 12427>>,  \* 【動】走る
    <<12304, 21517, 12305, 20117, 25144>>,  \* 【名】井戸
    <<12304, 21205, 12305, 36208, 12427, 12304, 21517, 12305, 36208, 34892>>,  \* 【動】走る【名】走行
    <<12304, 21517, 12305, 36208, 34892, 12304, 21205, 12305, 36208, 12427>>,  \* 【名】走行【動】走る
    <<20117, 25144>>,  \* 井戸
    <<12424, 12367>>,  \* よく
    <<12304, 21517, 12305, 21193, 24375>>,  \* 【名】勉強
    <<25805, 20316>>,  \* 操作
    <<40, 49, 41, 36208, 12427, 12418, 12398>>,  \* (1)走るもの
    <<115, 38745, 12363, 12394>>  \* s静かな
  }
----------------------------------------------------------------------------
(* Tables: a DataFrame is its list of rows and whether it has columns;     *)
(* pd.DataFrame() and pd.DataFrame([]) have neither                        *)

NoFrame == [cols |-> FALSE, rows |-> <<>>]

\* pd.DataFrame(records): the columns come from the records
FrameOf(records) == [cols |-> records # <<>>, rows |-> records]

\* pd.DataFrame(records, columns=...) and the frames cut out of such a frame
FrameWithCols(records) == [cols |-> TRUE, rows |-> records]

IsEmpty(frame) == frame.rows = <<>>

\* selecting a column of a frame that has no columns raises KeyError
HasColumns(frame) == frame.cols

\* the stable sort of s by the strict order Less (sorted(), sort_values on
\* several columns)
StableSort(s, Less(_, _)) ==
  LET n == Len(s)
      Before(j, i) == Less(s[j], s[i]) \/ (~Less(s[i], s[j]) /\ j < i)
      pos == [i \in 1..n |-> 1 + Cardinality({j \in 1..n : j # i /\ Before(j, i)})]
  IN  [k \in 1..n |-> s[CHOOSE i \in 1..n : pos[i] = k]]

RECURSIVE SumSeq(_)
SumSeq(s) == IF s = <<>> THEN 0 ELSE Head(s) + SumSeq(Tail(s))

\* the members of a sequence of values
Range(s) == {s[i] : i \in 1..Len(s)}

\* a rounding that truncates to two decimals
Round2Down(u) == u \div 100

\* round(x, 2) of a value in units of 1/10000, in units of 1/100 (ties to even)
Round2(u) ==
  LET q == u \div 100
      r == u % 100
  IN  IF r > 50 \/ (r = 50 /\ q % 2 = 1) THEN q + 1 ELSE q

----------------------------------------------------------------------------
(* Candidate aggregator *)

RECURSIVE FirstKeyword(_, _, _)
\* the index of the first keyword from k on that occurs in the book name, 0 if none
FirstKeyword(book, keywords, k) ==
  IF k > Len(keywords) THEN 0
  ELSE IF Contains(book, keywords[k]) THEN k
  ELSE FirstKeyword(book, keywords, k + 1)

RECURSIVE StageOfRules(_, _, _)
RECURSIVE StageOfRule(_, _, _, _)
\* the loop of classify_stage_and_book_rank from rule r on
StageOfRules(book, rules, r) ==
  IF r > Len(rules) THEN [stage |-> 3, label |-> "HS_Core", rank |-> 999]
  ELSE StageOfRule(book, rules, r, FirstKeyword(book, rules[r].keywords, 1))
StageOfRule(book, rules, r, k) ==
  IF k > 0 THEN [stage |-> rules[r].stage, label |-> rules[r].label, rank |-> k]
  ELSE StageOfRules(book, rules, r + 1)

classify_stage_and_book_rank(book) == StageOfRules(book, STAGE_RULES, 1)

\* the order of the bucket of STAGE_TO_GRADE_FALLBACK_ACCELERATED.get(stage, G10_HS1)
STAGE_TO_GRADE_FALLBACK_ACCELERATED(stage) ==
  CASE stage = 1 -> 1
    [] stage = 2 -> 3
    [] stage = 3 -> 4
    [] stage = 4 -> 5
    [] OTHER -> 4

RECURSIVE classify_grade_bucket(_, _, _, _)
\* the order of the grade bucket of a book, from rule r on (a bucket id and
\* its order determine each other)
classify_grade_bucket(book, stage, rules, r) ==
  IF r > Len(rules) THEN STAGE_TO_GRADE_FALLBACK_ACCELERATED(stage)
  ELSE IF FirstKeyword(book, rules[r].keywords, 1) > 0 THEN rules[r].order
  ELSE classify_grade_bucket(book, stage, rules, r + 1)

classify_grade_bucket_accelerated(book, stage) ==
  classify_grade_bucket(book, stage, GRADE_BUCKET_RULES_ACCELERATED, 1)

is_missing_token(text) == clean_text(text) \in MISSING_TOKENS

\* the tests of the row loop of build_original_wordbank on the cleaned cells
KeptCells(book, word, mng) ==
  /\ ~is_missing_token(word)
  /\ ~is_missing_token(mng)
  /\ ~Contains(book, <<21476, 25991>>)      \* classical Japanese books
  /\ ~Contains(book, <<21476, 20856>>)
  /\ has_ascii_letter(word)
  /\ normalize_headword(word) # <<>>

\* a row of the refined table that build_original_wordbank keeps
KeptRow(row) == KeptCells(clean_text(row.book), clean_text(row.word), clean_text(row.meaning))

\* the record appended to rows for a kept row, from its cleaned cells, its
\* stage classification and its POS inference
BaseRecord(book, number, word, mng, cls, inf) ==
  [book |-> book,
   number |-> number,
   headword |-> word,
   headword_norm |-> normalize_headword(word),
   meaning |-> sanitize_meaning_short(mng, 80),
   stage |-> cls.stage,
   stage_label |-> cls.label,
   book_rank |-> cls.rank,
   grade_accel_order |-> classify_grade_bucket_accelerated(book, cls.stage),
   pos |-> inf.pos,
   pos_confidence |-> inf.conf,
   pos_evidence |-> inf.evidence,
   is_phrase |-> is_phrase_headword(word)]

BaseCells(book, number, word, mng) ==
  BaseRecord(book, number, word, mng, classify_stage_and_book_rank(book),
             infer_pos(word, mng))

BaseRow(row) ==
  BaseCells(clean_text(row.book), row.number, clean_text(row.word),
            clean_text(row.meaning))

\* rows of build_original_wordbank
BaseRowsOf(kept) == [i \in 1..Len(kept) |-> BaseRow(kept[i])]
BaseRows(table) == BaseRowsOf(SelectSeq(table, KeptRow))

\* group.sort_values(["stage", "book_rank", "number", "book", "meaning"])
GroupRowLess(a, b) ==
  LET ka == <<a.stage, a.book_rank, a.number>>
      kb == <<b.stage, b.book_rank, b.number>>
  IN  \/ StrLess(ka, kb)
      \/ /\ ka = kb
         /\ \/ StrLess(a.book, b.book)
            \/ a.book = b.book /\ StrLess(a.meaning, b.meaning)

RECURSIVE CounterItems(_, _)
\* Counter(values).items(): the distinct values in order of first occurrence,
\* each with its number of occurrences
CounterItems(values, all) ==
  IF values = <<>> THEN <<>>
  ELSE LET v == Head(values)
           rest == SelectSeq(Tail(values), LAMBDA x : x # v)
       IN  <<[key |-> v, count |-> Len(SelectSeq(all, LAMBDA x : x = v))]>>
             \o CounterItems(rest, all)

\* a counter that records each distinct value once
CounterOfDistinct(values) ==
  [i \in 1..Len(CounterItems(values, values)) |->
     [CounterItems(values, values)[i] EXCEPT !.count = 1]]

Counter(values) == CounterItems(values, values)

\* position of a POS name in alphabetical order (the last sort key of the ranking)
PosAlphaRank(pos) ==
  CASE pos = "adjective" -> 1
    [] pos = "adverb" -> 2
    [] pos = "function" -> 3
    [] pos = "noun" -> 4
    [] pos = "other" -> 5
    [] pos = "phrase" -> 6
    [] pos = "verb" -> 7
    [] OTHER -> 8

\* pos_score_map[pos] of a sorted group, in units of 1/10000
PosScore(group, pos) ==
  LET pos_group == SelectSeq(group, LAMBDA r : r.pos = pos)
      row_scores == [i \in 1..Len(pos_group) |->
                       pos_group[i].pos_confidence
                         * STAGE_POS_WEIGHT(pos_group[i].stage)
                         * POS_EVIDENCE_WEIGHT(pos_group[i].pos_evidence)]
  IN  SumSeq(row_scores) + Len(pos_group) * 80000

\* a ranking by votes alone, as Counter.most_common() ranks: POS with equal
\* votes keep the order in which the rows of the group present them
PosRankKeyVotesOnly(item, score) == <<0 - item.count>>

\* key of pos_ranked: (-score, -votes, POS_ORDER_INDEX, name)
PosRankKey(item, score) ==
  <<0 - score, 0 - item.count, POS_ORDER_INDEX(item.key), PosAlphaRank(item.key)>>

\* key of pos_candidates: (-votes, POS_ORDER_INDEX, name)
PosCandidateKey(item) ==
  <<0 - item.count, POS_ORDER_INDEX(item.key), PosAlphaRank(item.key)>>

\* the median of a sorted non-empty list of positive numbers, truncated
MedianOfSorted(s, n) ==
  IF n % 2 = 1 THEN s[(n + 1) \div 2] ELSE (s[n \div 2] + s[n \div 2 + 1]) \div 2

\* int(pd.Series(numbers).median()), 0 for the empty list
MedianInt(numbers) ==
  IF numbers = <<>> THEN 0
  ELSE MedianOfSorted(StableSort(numbers, LAMBDA a, b : a < b), Len(numbers))

\* pick_bucket on the accelerated buckets: the order of the most frequent
\* bucket, the lower order winning a tie
PickAmong(group, orders) ==
  CHOOSE o \in orders :
    \A p \in orders \ {o} :
      \/ Cardinality({i \in 1..Len(group) : group[i].grade_accel_order = o})
           > Cardinality({i \in 1..Len(group) : group[i].grade_accel_order = p})
      \/ /\ Cardinality({i \in 1..Len(group) : group[i].grade_accel_order = o})
              = Cardinality({i \in 1..Len(group) : group[i].grade_accel_order = p})
         /\ o < p

PickBucketOrder(group) ==
  PickAmong(group, {group[i].grade_accel_order : i \in 1..Len(group)})

\* first_alpha(...).upper(): a letter a..z in upper case, "_" unchanged
UpperLetter(c) == IF c \in 97..122 THEN c - 32 ELSE c

\* the smallest member of a non-empty set of numbers
MinOf(S) == CHOOSE s \in S : \A t \in S : s <= t

\* the accelerated bucket after the stage caps
CapBucket(stage_min, accel) ==
  IF stage_min <= 2 /\ accel > 3 THEN STAGE_TO_GRADE_FALLBACK_ACCELERATED(2)
  ELSE IF stage_min = 3 /\ accel > 4 THEN STAGE_TO_GRADE_FALLBACK_ACCELERATED(3)
  ELSE accel

\* pos_ranked: the (POS, votes) pairs by (-score, -votes, POS order, name)
RankPos(pos_counter, scoreOf) ==
  StableSort(pos_counter,
             LAMBDA a, b : StrLess(PosRankKey(a, scoreOf[a.key]),
                                   PosRankKey(b, scoreOf[b.key])))

\* pos_score_map of a sorted group
PosScoreMap(group, pos_counter) ==
  [p \in {pos_counter[i].key : i \in 1..Len(pos_counter)} |-> PosScore(group, p)]

\* the rows of the primary POS, by (-confidence, stage, book rank)
PrimaryGroup(group, pos_primary) ==
  StableSort(SelectSeq(group, LAMBDA r : r.pos = pos_primary),
             LAMBDA a, b : StrLess(<<0 - a.pos_confidence, a.stage, a.book_rank>>,
                                   <<0 - b.pos_confidence, b.stage, b.book_rank>>))

\* the grouped row, without its entry_id, from the values computed in one
\* pass of the loop over base.groupby("headword_norm")
GroupedRecord(group, representative, stage_min, pos_counter, scoreOf, pos_ranked, pos_primary, pos_secondary, top, letter) ==
  [headword |-> representative.headword,
   headword_norm |-> representative.headword_norm,
   meaning_ja_short |-> representative.meaning,
   pos |-> pos_primary,
   pos_label_ja |-> POS_LABEL_JA(pos_primary),
   pos_confidence |-> top.pos_confidence,
   pos_vote_count |-> pos_ranked[1].count,
   pos_secondary |-> pos_secondary,
   is_multi_pos |-> Len(pos_counter) >= 2,
   pos_score_primary |-> Round2(scoreOf[pos_primary]),
   pos_score_secondary |-> IF pos_secondary # "" THEN Round2(scoreOf[pos_secondary]) ELSE 0,
   pos_score_margin |->
     Round2(scoreOf[pos_primary]
              - (IF pos_secondary # "" THEN scoreOf[pos_secondary] ELSE 0)),
   pos_candidates |->
     StableSort(pos_counter,
                LAMBDA a, b : StrLess(PosCandidateKey(a), PosCandidateKey(b))),
   pos_evidence |-> top.pos_evidence,
   is_phrase |-> representative.is_phrase \/ pos_primary = "phrase",
   stage |-> stage_min,
   stage_label |-> representative.stage_label,
   grade_bucket_default_order |-> CapBucket(stage_min, PickBucketOrder(group)),
   group_order |-> POS_ORDER_INDEX(pos_primary),
   group_id |-> <<stage_min, pos_primary, letter>>,
   group_label |-> <<POS_LABEL_JA(pos_primary), letter>>,
   source_primary |-> representative.book,
   source_primary_number |-> representative.number,
   book_rank_primary |-> representative.book_rank,
   source_count |-> Cardinality({group[i].book : i \in 1..Len(group)}),
   source_number_median |->
     MedianInt(SelectSeq([i \in 1..Len(group) |-> group[i].number], LAMBDA n : n > 0))]

GroupedRanked(group, pos_counter, scoreOf, pos_ranked) ==
  GroupedRecord(group, group[1],
                MinOf({group[i].stage : i \in 1..Len(group)}),
                pos_counter, scoreOf, pos_ranked,
                pos_ranked[1].key,
                IF Len(pos_ranked) >= 2 THEN pos_ranked[2].key ELSE "",
                PrimaryGroup(group, pos_ranked[1].key)[1],
                UpperLetter(first_alpha(group[1].headword_norm)))

GroupedScored(group, pos_counter, scoreOf) ==
  GroupedRanked(group, pos_counter, scoreOf, RankPos(pos_counter, scoreOf))

GroupedCounted(group, pos_counter) ==
  GroupedScored(group, pos_counter, PosScoreMap(group, pos_counter))

GroupedSorted(group) ==
  GroupedCounted(group, Counter([i \in 1..Len(group) |-> group[i].pos]))

\* the grouped row of one normalized headword
GroupedRow(base, key) ==
  GroupedSorted(StableSort(SelectSeq(base, LAMBDA r : r.headword_norm = key),
                           GroupRowLess))

\* the sort of the grouped rows that fixes the entry ids
WordbankLess(a, b) ==
  LET ka == <<a.grade_bucket_default_order, a.stage, a.group_order, a.group_id[3],
              a.source_number_median, a.book_rank_primary, a.source_primary_number>>
      kb == <<b.grade_bucket_default_order, b.stage, b.group_order, b.group_id[3],
              b.source_number_median, b.book_rank_primary, b.source_primary_number>>
  IN  StrLess(ka, kb) \/ (ka = kb /\ StrLess(a.headword_norm, b.headword_norm))

\* the keys of base.groupby("headword_norm"), in increasing order
SortedKeys(keys) ==
  [k \in 1..Cardinality(keys) |->
     CHOOSE x \in keys : Cardinality({y \in keys : StrLess(y, x)}) = k - 1]

GroupKeys(base) == SortedKeys({base[i].headword_norm : i \in 1..Len(base)})

\* entry_id n stands for the identifier WB followed by n on six digits
NumberEntries(sorted) == [i \in 1..Len(sorted) |-> [entry_id |-> i] @@ sorted[i]]

GroupedRows(base, keySeq) == [i \in 1..Len(keySeq) |-> GroupedRow(base, keySeq[i])]

WordbankOf(base) ==
  IF base = <<>> THEN NoFrame
  ELSE FrameOf(NumberEntries(StableSort(GroupedRows(base, GroupKeys(base)),
                                        WordbankLess)))

\* the wordbank frame returned by build_original_wordbank
build_original_wordbank(table) == WordbankOf(BaseRows(table))

----------------------------------------------------------------------------
(* Review triage *)

\* the review row of a wordbank row, with its score, priority and reasons
ReviewRow(row) ==
  LET conf == row.pos_confidence
      margin == row.pos_score_margin
      is_multi_pos == row.is_multi_pos
      evidence == row.pos_evidence
      stage == row.stage
      source_count == row.source_count
      p1 == IF conf < 60 THEN 5
            ELSE IF conf < POS_REVIEW_CONFIDENCE_THRESHOLD THEN 3 ELSE 0
      p2 == IF is_multi_pos THEN 3 ELSE 0
      p3 == IF margin < 1500 THEN 4
            ELSE IF margin < POS_REVIEW_MARGIN_THRESHOLD THEN 2 ELSE 0
      p4 == IF evidence \in {"fallback_noun", "verb_suffix"} THEN 2 ELSE 0
      p5 == IF source_count >= 5 /\ is_multi_pos THEN 1 ELSE 0
      p6 == IF stage >= 4 THEN 1 ELSE 0
      score == p1 + p2 + p3 + p4 + p5 + p6
      reasons ==
        (IF conf < 60 THEN <<"low_confidence(<60)">>
         ELSE IF conf < POS_REVIEW_CONFIDENCE_THRESHOLD THEN <<"mid_confidence(<70)">>
         ELSE <<>>)
        \o (IF is_multi_pos THEN <<"multi_pos">> ELSE <<>>)
        \o (IF margin < 1500 THEN <<"very_close_margin">>
            ELSE IF margin < POS_REVIEW_MARGIN_THRESHOLD THEN <<"close_margin">>
            ELSE <<>>)
        \o (IF p4 > 0 THEN <<"weak_evidence:" \o evidence>> ELSE <<>>)
        \o (IF p5 > 0 THEN <<"many_sources_with_conflict">> ELSE <<>>)
        \o (IF p6 > 0 THEN <<"advanced_stage">> ELSE <<>>)
  IN  [entry_id |-> row.entry_id,
       headword |-> row.headword,
       headword_norm |-> row.headword_norm,
       meaning_ja_short |-> row.meaning_ja_short,
       pos_current |-> row.pos,
       pos_label_ja |-> row.pos_label_ja,
       pos_secondary |-> row.pos_secondary,
       pos_candidates |-> row.pos_candidates,
       pos_confidence |-> conf,
       pos_score_margin |-> margin,
       is_multi_pos |-> is_multi_pos,
       pos_evidence |-> evidence,
       stage |-> stage,
       source_count |-> source_count,
       review_priority |-> IF score >= 8 THEN "HIGH"
                           ELSE IF score >= 5 THEN "MEDIUM" ELSE "LOW",
       review_score |-> score,
       review_reason |-> reasons]

\* an emission that looks at the score alone
EmittedByScore(r) == r.review_score >= 5

\* whether the row is appended to review_rows
Emitted(r) ==
  \/ r.review_score >= 5
  \/ r.is_multi_pos
  \/ r.pos_confidence < POS_REVIEW_CONFIDENCE_THRESHOLD

\* order of the priority labels as strings: HIGH < LOW < MEDIUM
PriorityAlphaRank(p) == CASE p = "HIGH" -> 1 [] p = "LOW" -> 2 [] OTHER -> 3

\* sort_values(["review_score", "review_priority", "stage", "source_count",
\* "headword_norm"], ascending=[False, True, True, False, True])
ReviewLess(a, b) ==
  LET ka == <<0 - a.review_score, PriorityAlphaRank(a.review_priority), a.stage,
              0 - a.source_count>>
      kb == <<0 - b.review_score, PriorityAlphaRank(b.review_priority), b.stage,
              0 - b.source_count>>
  IN  StrLess(ka, kb) \/ (ka = kb /\ StrLess(a.headword_norm, b.headword_norm))

\* review_rows of build_pos_review_candidates, before the sort
ReviewRows(wb) ==
  SelectSeq([i \in 1..Len(wb.rows) |-> ReviewRow(wb.rows[i])], Emitted)

\* sort_values on the frame built from an empty review_rows raises KeyError
build_pos_review_candidates_raises(wb) == ~IsEmpty(wb) /\ ReviewRows(wb) = <<>>

build_pos_review_candidates(wb) ==
  IF IsEmpty(wb) THEN NoFrame
  ELSE FrameOf(StableSort(ReviewRows(wb), ReviewLess))

\* a subset that holds every review row, whatever its priority
ReviewSubsetOfAll(review, label) ==
  IF IsEmpty(review) THEN NoFrame ELSE FrameWithCols(review.rows)

\* pos_review[pos_review["review_priority"] == label] if not pos_review.empty
ReviewSubset(review, label) ==
  IF IsEmpty(review) THEN NoFrame
  ELSE FrameWithCols(SelectSeq(review.rows, LAMBDA r : r.review_priority = label))

----------------------------------------------------------------------------
(* Confirmation passes *)

\* parse_pos_candidates_map(text).get(pos, 0) on the candidates "pos:count | ..."
CandidateCount(pos_candidates, pos) ==
  IF \E i \in 1..Len(pos_candidates) : pos_candidates[i].key = pos
    THEN pos_candidates[CHOOSE i \in 1..Len(pos_candidates) :
                          pos_candidates[i].key = pos].count
    ELSE 0

\* int(count * tenths / 10): the float product of the source truncates to the
\* same integer for every count below 90
IntTenths(count, tenths) == (count * tenths) \div 10

\* the row of a wordbank frame with the given entry id
HasEntry(wb, entry_id) == \E i \in 1..Len(wb.rows) : wb.rows[i].entry_id = entry_id
EntryOf(wb, entry_id) ==
  wb.rows[CHOOSE i \in 1..Len(wb.rows) : wb.rows[i].entry_id = entry_id]

\* the confirmation record of one review row (body of the first loop of
\* confirm_priority_pos); confidences in hundredths
ConfirmationRecord(wb_row, priority_label) ==
  LET headword_norm == wb_row.headword_norm
      current_pos == wb_row.pos
      secondary_pos == wb_row.pos_secondary
      mng == wb_row.meaning_ja_short
      evidence == wb_row.pos_evidence
      primary_count == CandidateCount(wb_row.pos_candidates, current_pos)
      secondary_count == IF secondary_pos # ""
                           THEN CandidateCount(wb_row.pos_candidates, secondary_pos)
                           ELSE 0
      marker_pos == infer_pos_from_meaning_markers(mng)
      marker_safe ==
        \/ /\ secondary_pos # ""
           /\ marker_pos = secondary_pos
           /\ secondary_count >= Max(3, IntTenths(primary_count, 8))
        \/ /\ marker_pos = "verb"
           /\ secondary_pos = "verb"
           /\ secondary_count >= Max(3, IntTenths(primary_count, 7))
      decision ==
        IF headword_norm \in ADVERB_HEADWORDS /\ current_pos # "adverb"
          THEN <<"adverb", "headword_adverb_override", "explicit_adverb_headword_list">>
        ELSE IF headword_norm \in ADJECTIVE_HEADWORDS /\ current_pos # "adjective"
          THEN <<"adjective", "headword_adjective_override",
                 "explicit_adjective_headword_list">>
        ELSE IF marker_pos # "" /\ marker_pos # current_pos
          THEN IF marker_safe
                 THEN <<marker_pos, "meaning_marker_override",
                        "meaning_marker_with_votes:" \o marker_pos>>
                 ELSE <<current_pos, "keep_current", "no_override_rule">>
        ELSE IF /\ current_pos = "noun"
                /\ evidence = "fallback_noun"
                /\ secondary_pos # ""
                /\ secondary_pos # current_pos
                /\ secondary_count >= 4
                /\ secondary_count >= Max(3, IntTenths(primary_count, 6))
          THEN <<secondary_pos, "secondary_vote_override",
                 "fallback_noun_with_secondary_votes:" \o secondary_pos>>
        ELSE <<current_pos, "keep_current", "no_override_rule">>
      changed == decision[2] # "keep_current"
  IN  [entry_id |-> wb_row.entry_id,
       headword |-> wb_row.headword,
       headword_norm |-> headword_norm,
       meaning_ja_short |-> mng,
       current_pos |-> current_pos,
       confirmed_pos |-> decision[1],
       changed |-> changed,
       method |-> decision[2],
       reason |-> decision[3],
       pos_confidence_before |-> wb_row.pos_confidence,
       confirmation_confidence |->
         IF decision[2] \in {"headword_adverb_override", "headword_adjective_override"}
           THEN 98 ELSE IF changed THEN 90 ELSE 70,
       pos_candidates |-> wb_row.pos_candidates,
       review_priority |-> priority_label]

\* the writes of a stage that leaves is_multi_pos as it was
OverrideRowKeepsFlag(row, old_pos, new_pos, evidence, confidence) ==
  LET letter == UpperLetter(first_alpha(row.headword_norm))
  IN  [row EXCEPT
         !.pos_secondary = old_pos,
         !.pos = new_pos,
         !.pos_label_ja = POS_LABEL_JA(new_pos),
         !.pos_evidence = evidence,
         !.pos_confidence = confidence,
         !.group_order = POS_ORDER_INDEX(new_pos),
         !.group_id = <<row.stage, new_pos, letter>>,
         !.group_label = <<POS_LABEL_JA(new_pos), letter>>]

\* the writes of a stage that puts the confidence into the vote count
OverrideRowIntoVotes(row, old_pos, new_pos, evidence, confidence) ==
  LET letter == UpperLetter(first_alpha(row.headword_norm))
  IN  [row EXCEPT
         !.pos_secondary = old_pos,
         !.pos = new_pos,
         !.pos_label_ja = POS_LABEL_JA(new_pos),
         !.is_multi_pos = TRUE,
         !.pos_evidence = evidence,
         !.pos_vote_count = confidence,
         !.group_order = POS_ORDER_INDEX(new_pos),
         !.group_id = <<row.stage, new_pos, letter>>,
         !.group_label = <<POS_LABEL_JA(new_pos), letter>>]

\* the writes of a stage that leaves the group key as it was
OverrideRowKeepsGroup(row, old_pos, new_pos, evidence, confidence) ==
  [row EXCEPT
     !.pos_secondary = old_pos,
     !.pos = new_pos,
     !.pos_label_ja = POS_LABEL_JA(new_pos),
     !.is_multi_pos = TRUE,
     !.pos_evidence = evidence,
     !.pos_confidence = confidence]

\* the writes of a confirmation stage to a wordbank row whose POS changes
OverrideRow(row, old_pos, new_pos, evidence, confidence) ==
  LET letter == UpperLetter(first_alpha(row.headword_norm))
  IN  [row EXCEPT
         !.pos_secondary = old_pos,
         !.pos = new_pos,
         !.pos_label_ja = POS_LABEL_JA(new_pos),
         !.is_multi_pos = TRUE,
         !.pos_evidence = evidence,
         !.pos_confidence = confidence,
         !.group_order = POS_ORDER_INDEX(new_pos),
         !.group_id = <<row.stage, new_pos, letter>>,
         !.group_label = <<POS_LABEL_JA(new_pos), letter>>]

\* confirmation_df of confirm_priority_pos
Confirmations(wb, subset, priority_label) ==
  LET known == SelectSeq(subset.rows,
                         LAMBDA r : r.entry_id # 0 /\ HasEntry(wb, r.entry_id))
  IN  [i \in 1..Len(known) |->
         ConfirmationRecord(EntryOf(wb, known[i].entry_id), priority_label)]

\* wb_confirmed of confirm_priority_pos (second loop)
ConfirmedRow(row, confirmations, evidence_prefix) ==
  IF \E i \in 1..Len(confirmations) :
       confirmations[i].changed /\ confirmations[i].entry_id = row.entry_id
    THEN LET payload == confirmations[CHOOSE i \in 1..Len(confirmations) :
                          confirmations[i].changed
                            /\ confirmations[i].entry_id = row.entry_id]
             new_pos == payload.confirmed_pos
             old_pos == row.pos
         IN  IF new_pos = "" \/ new_pos = old_pos THEN row
             ELSE OverrideRow(row, old_pos, new_pos,
                              evidence_prefix \o ":" \o payload.method,
                              Max(row.pos_confidence, payload.confirmation_confidence))
    ELSE row

\* confirm_priority_pos: the pair (confirmation_df, wb_confirmed)
confirm_priority_pos(wb, subset, priority_label, evidence_prefix) ==
  IF IsEmpty(wb) \/ IsEmpty(subset) THEN <<NoFrame, wb>>
  ELSE LET confirmations == Confirmations(wb, subset, priority_label)
       IN  IF confirmations = <<>> THEN <<NoFrame, wb>>
           ELSE <<FrameOf(confirmations),
                  [wb EXCEPT !.rows = [i \in 1..Len(wb.rows) |->
                     ConfirmedRow(wb.rows[i], confirmations, evidence_prefix)]]>>

confirm_high_priority_pos(wb, pos_review_high) ==
  confirm_priority_pos(wb, pos_review_high, "HIGH", "high_confirm")

----------------------------------------------------------------------------
(* Manual queue and quick-win pass *)

\* entry ids of the confirmation records with changed = False
UnchangedIds(confirmation_df) ==
  {confirmation_df.rows[i].entry_id :
     i \in {j \in 1..Len(confirmation_df.rows) : ~confirmation_df.rows[j].changed}}

\* sort_values(["review_priority", "review_score", "stage", "source_count",
\* "headword_norm"], ascending=[True, False, True, False, True])
QueueLess(a, b) ==
  LET ka == <<PriorityAlphaRank(a.review_priority), 0 - a.review_score, a.stage,
              0 - a.source_count>>
      kb == <<PriorityAlphaRank(b.review_priority), 0 - b.review_score, b.stage,
              0 - b.source_count>>
  IN  StrLess(ka, kb) \/ (ka = kb /\ StrLess(a.headword_norm, b.headword_norm))

RECURSIVE DropDuplicateIds(_, _)
\* drop_duplicates(subset=["entry_id"]), keeping the first
DropDuplicateIds(rows, seen) ==
  IF rows = <<>> THEN <<>>
  ELSE IF Head(rows).entry_id \in seen THEN DropDuplicateIds(Tail(rows), seen)
  ELSE <<Head(rows)>> \o DropDuplicateIds(Tail(rows), seen \cup {Head(rows).entry_id})

\* the suggestion columns added to a queue row
QueueRow(row) ==
  LET current_pos == row.pos_current
      secondary_pos == row.pos_secondary
      current_votes == CandidateCount(row.pos_candidates, current_pos)
      jp_hint == infer_pos_from_meaning_markers(row.meaning_ja_short)
      hint_votes == CandidateCount(row.pos_candidates, jp_hint)
      secondary_votes == CandidateCount(row.pos_candidates, secondary_pos)
      byHint ==
        /\ jp_hint # ""
        /\ jp_hint # current_pos
        /\ \E i \in 1..Len(row.pos_candidates) : row.pos_candidates[i].key = jp_hint
        /\ hint_votes >= Max(2, IntTenths(current_votes, 6))
      bySecondary ==
        /\ ~byHint
        /\ current_pos = "noun"
        /\ secondary_pos # ""
        /\ secondary_pos # current_pos
        /\ secondary_votes >= Max(3, IntTenths(current_votes, 8))
  IN  row @@
      [jp_hint_pos |-> jp_hint,
       suggested_pos_auto |-> IF byHint THEN jp_hint
                              ELSE IF bySecondary THEN secondary_pos ELSE "",
       suggested_reason |->
         IF byHint THEN <<"jp_hint_with_votes", hint_votes, current_votes>>
         ELSE IF bySecondary THEN <<"secondary_votes", secondary_votes, current_votes>>
         ELSE <<>>,
       decision_pos |-> "",
       decision_reason |-> "",
       reviewer |-> "",
       status |-> "todo"]

\* build_high_medium_manual_queue: the pair (queue, quickwin)
build_high_medium_manual_queue(review, high_confirmations, medium_confirmations) ==
  LET unchanged_ids ==
        (IF IsEmpty(high_confirmations) THEN {} ELSE UnchangedIds(high_confirmations))
          \cup
        (IF IsEmpty(medium_confirmations) THEN {} ELSE UnchangedIds(medium_confirmations))
      selected == SelectSeq(review.rows,
                    LAMBDA r : r.review_priority \in {"HIGH", "MEDIUM"}
                               /\ r.entry_id \in unchanged_ids)
      sorted == StableSort(DropDuplicateIds(selected, {}), QueueLess)
      queue == [i \in 1..Len(sorted) |-> QueueRow(sorted[i])]
  IN  IF IsEmpty(review) THEN <<NoFrame, NoFrame>>
      ELSE IF unchanged_ids = {} THEN <<NoFrame, NoFrame>>
      ELSE IF selected = <<>> THEN <<FrameWithCols(<<>>), NoFrame>>
      ELSE <<FrameWithCols(queue),
             FrameWithCols(SelectSeq(queue, LAMBDA r : r.suggested_pos_auto # ""))>>

\* records of apply_quickwin_confirmations
QuickwinRecords(wb, quickwin_df) ==
  LET usable == SelectSeq(quickwin_df.rows,
                  LAMBDA r : /\ r.entry_id # 0
                             /\ r.suggested_pos_auto # ""
                             /\ HasEntry(wb, r.entry_id)
                             /\ EntryOf(wb, r.entry_id).pos # ""
                             /\ EntryOf(wb, r.entry_id).pos # r.suggested_pos_auto)
  IN  [i \in 1..Len(usable) |->
         [entry_id |-> usable[i].entry_id,
          headword_norm |-> EntryOf(wb, usable[i].entry_id).headword_norm,
          current_pos |-> EntryOf(wb, usable[i].entry_id).pos,
          confirmed_pos |-> usable[i].suggested_pos_auto,
          method |-> "quickwin_auto",
          reason |-> usable[i].suggested_reason,
          review_priority |-> usable[i].review_priority]]

\* a quick-win write that sets the confidence to 88 whatever it was
QuickwinRowResetsConfidence(row, records) ==
  IF \E i \in 1..Len(records) : records[i].entry_id = row.entry_id
    THEN LET payload == records[CHOOSE i \in 1..Len(records) :
                                  records[i].entry_id = row.entry_id]
         IN  OverrideRow(row, row.pos, payload.confirmed_pos, "quickwin_confirm", 88)
    ELSE row

QuickwinRow(row, records) ==
  IF \E i \in 1..Len(records) : records[i].entry_id = row.entry_id
    THEN LET payload == records[CHOOSE i \in 1..Len(records) :
                                  records[i].entry_id = row.entry_id]
         IN  OverrideRow(row, row.pos, payload.confirmed_pos, "quickwin_confirm",
                         Max(row.pos_confidence, 88))
    ELSE row

\* apply_quickwin_confirmations: the triple (confirmations, wb, remaining)
apply_quickwin_confirmations(wb, quickwin_df) ==
  IF IsEmpty(wb) \/ IsEmpty(quickwin_df) THEN <<NoFrame, wb, NoFrame>>
  ELSE LET records == QuickwinRecords(wb, quickwin_df)
           ids == {records[i].entry_id : i \in 1..Len(records)}
       IN  IF records = <<>> THEN <<NoFrame, wb, quickwin_df>>
           ELSE <<FrameOf(records),
                  [wb EXCEPT !.rows = [i \in 1..Len(wb.rows) |->
                     QuickwinRow(wb.rows[i], records)]],
                  FrameWithCols(SelectSeq(quickwin_df.rows,
                                          LAMBDA r : r.entry_id \notin ids))>>

----------------------------------------------------------------------------
(* Manual batch intake *)

\* the text of a POS label, as written in a csv cell
PosText(pos) ==
  CASE pos = "verb" -> <<118, 101, 114, 98>>
    [] pos = "noun" -> <<110, 111, 117, 110>>
    [] pos = "adjective" -> <<97, 100, 106, 101, 99, 116, 105, 118, 101>>
    [] pos = "adverb" -> <<97, 100, 118, 101, 114, 98>>
    [] pos = "phrase" -> <<112, 104, 114, 97, 115, 101>>
    [] pos = "function" -> <<102, 117, 110, 99, 116, 105, 111, 110>>
    [] pos = "other" -> <<111, 116, 104, 101, 114>>
    [] OTHER -> <<>>

\* decision_pos in POS_ORDER_INDEX
IsPosText(text) == \E p \in PosSet : PosText(p) = text

\* the POS label whose text is given
PosOfText(text) == CHOOSE p \in PosSet : PosText(p) = text

\* done confirmed approved apply applied manual_done complete
accepted_status ==
  {<<100, 111, 110, 101>>,
   <<99, 111, 110, 102, 105, 114, 109, 101, 100>>,
   <<97, 112, 112, 114, 111, 118, 101, 100>>,
   <<97, 112, 112, 108, 121>>,
   <<97, 112, 112, 108, 105, 101, 100>>,
   <<109, 97, 110, 117, 97, 108, 95, 100, 111, 110, 101>>,
   <<99, 111, 109, 112, 108, 101, 116, 101>>}

\* the text of a status written by the queue builder and by prefill
StatusText(status) ==
  CASE status = "todo" -> <<116, 111, 100, 111>>
    [] status = "todo_prefill" -> <<116, 111, 100, 111, 95, 112, 114, 101, 102, 105, 108, 108>>
    [] OTHER -> <<>>

StartsWith(s, t) == SubSeqAt(s, 1, t)

\* glob("POS_MANUAL_BATCH_*.csv") or glob("POS_MANUAL_CHANGE_BATCH_*.csv")
IsBatchFileName(name) ==
  LET p1 == <<80, 79, 83, 95, 77, 65, 78, 85, 65, 76, 95, 66, 65, 84, 67, 72, 95>>
      p2 == <<80, 79, 83, 95, 77, 65, 78, 85, 65, 76, 95, 67, 72, 65, 78, 71, 69, 95,
              66, 65, 84, 67, 72, 95>>
      suffix == <<46, 99, 115, 118>>
  IN  \/ StartsWith(name, p1) /\ EndsWith(name, suffix) /\ Len(name) >= Len(p1) + 4
      \/ StartsWith(name, p2) /\ EndsWith(name, suffix) /\ Len(name) >= Len(p2) + 4

RECURSIVE Digits(_)
\* str(n) for n >= 0
Digits(n) == IF n < 10 THEN <<48 + n>> ELSE Digits(n \div 10) \o <<48 + (n % 10)>>

\* str(n).zfill(width)
ZFill(n, width) ==
  LET d == Digits(n)
  IN  [i \in 1..Max(0, width - Len(d)) |-> 48] \o d

\* candidates["_sort_key"]
SortKey(c) == c.batch_file \o <<124>> \o ZFill(c.row_index, 6)

RECURSIVE ReadFiles(_)
\* the rows of the batch files in reading order, each with its file and its
\* 1-based row index
ReadFiles(files) ==
  IF files = <<>> THEN <<>>
  ELSE [i \in 1..Len(Head(files).rows) |->
          [batch_file |-> Head(files).name, row_index |-> i, row |-> Head(files).rows[i]]]
         \o ReadFiles(Tail(files))

\* sorted(glob(...) + glob(...))
BatchFiles(dir) ==
  StableSort(SelectSeq(dir.files, LAMBDA f : IsBatchFileName(f.name)),
          LAMBDA a, b : StrLess(a.name, b.name))

\* the first loop without the status test: a row that is not ready becomes a
\* candidate
RowVerdictAnyStatus(r) ==
  IF r.row.entry_id = 0 THEN "skip"
  ELSE IF Lower(clean_text(r.row.decision_pos)) = <<>> THEN "skip"
  ELSE IF ~IsPosText(Lower(clean_text(r.row.decision_pos))) THEN "invalid_decision_pos"
  ELSE "candidate"

\* the verdict of the first loop on one row: skip, candidate, or the reason
\* for which the row is ignored
RowVerdict(r) ==
  LET decision_pos == Lower(clean_text(r.row.decision_pos))
      status == Lower(clean_text(r.row.status))
  IN  IF r.row.entry_id = 0 THEN "skip"
      ELSE IF decision_pos = <<>> THEN "skip"
      ELSE IF ~IsPosText(decision_pos) THEN "invalid_decision_pos"
      ELSE IF status # <<>> /\ status \notin accepted_status THEN "status_not_ready"
      ELSE "candidate"

IgnoredRecord(r, reason) ==
  [entry_id |-> r.row.entry_id,
   decision_pos |-> Lower(clean_text(r.row.decision_pos)),
   status |-> Lower(clean_text(r.row.status)),
   batch_file |-> r.batch_file,
   row_index |-> r.row_index,
   reason |-> reason]

CandidateRecord(r) ==
  [entry_id |-> r.row.entry_id,
   headword_norm |-> clean_text(r.row.headword_norm),
   meaning_ja_short |-> clean_text(r.row.meaning_ja_short),
   decision_pos |-> Lower(clean_text(r.row.decision_pos)),
   decision_reason |-> r.row.decision_reason,
   reviewer |-> r.row.reviewer,
   status |-> IF Lower(clean_text(r.row.status)) # <<>>
                THEN Lower(clean_text(r.row.status)) ELSE <<100, 111, 110, 101>>,
   batch_file |-> r.batch_file,
   row_index |-> r.row_index]

\* drop_duplicates(subset=["entry_id"]) with the default keep="first"
KeepFirst(cands) ==
  SelectSeq([i \in 1..Len(cands) |->
               [c |-> cands[i],
                last |-> \A j \in 1..(i - 1) : cands[j].entry_id # cands[i].entry_id]],
            LAMBDA x : x.last)

\* drop_duplicates(subset=["entry_id"], keep="last")
KeepLast(cands) ==
  SelectSeq([i \in 1..Len(cands) |->
               [c |-> cands[i],
                last |-> \A j \in (i + 1)..Len(cands) :
                           cands[j].entry_id # cands[i].entry_id]],
            LAMBDA x : x.last)

\* the candidates in the order of their sort key, one per entry id
SortedCandidates(read) ==
  LET cand == SelectSeq(read, LAMBDA r : RowVerdict(r) = "candidate")
      recs == [i \in 1..Len(cand) |-> CandidateRecord(cand[i])]
      sorted == StableSort(recs, LAMBDA a, b : StrLess(SortKey(a), SortKey(b)))
      kept == KeepLast(sorted)
  IN  [i \in 1..Len(kept) |-> kept[i].c]

\* the ids of wb_headword_idx[headword] and wb_headword_meaning_idx[(headword, meaning)]
IdsOfHeadword(wb0, hw) ==
  SelectSeq([i \in 1..Len(wb0.rows) |-> wb0.rows[i]],
            LAMBDA r : r.headword_norm # <<>> /\ r.headword_norm = hw)
IdsOfHeadwordMeaning(wb0, hw, mng) ==
  SelectSeq(IdsOfHeadword(wb0, hw), LAMBDA r : r.meaning_ja_short = mng)

\* resolve_by_headword(): the entry id found, 0 for the empty string
resolve_by_headword(wb0, decision) ==
  LET dh == decision.headword_norm
      dm == decision.meaning_ja_short
      exact_ids == IdsOfHeadwordMeaning(wb0, dh, dm)
      ids == IdsOfHeadword(wb0, dh)
  IN  IF dh = <<>> THEN 0
      ELSE IF dm # <<>> /\ Len(exact_ids) = 1 THEN exact_ids[1].entry_id
      ELSE IF Len(ids) = 1 THEN ids[1].entry_id
      ELSE 0

\* an entry resolution that trusts the id of the decision when it names an entry
ResolutionTrustsId(wb0, decision) ==
  LET resolved == resolve_by_headword(wb0, decision)
  IN  IF HasEntry(wb0, decision.entry_id)
        THEN [entry_id |-> decision.entry_id, reason |-> ""]
      ELSE IF resolved # 0 THEN [entry_id |-> resolved, reason |-> ""]
      ELSE [entry_id |-> 0, reason |-> "entry_not_found"]

\* entry resolution of one decision against the index built before the loop:
\* the entry id to update, or the reason for which the decision is ignored
Resolution(wb0, decision) ==
  LET dh == decision.headword_norm
      dm == decision.meaning_ja_short
      resolved == resolve_by_headword(wb0, decision)
  IN  IF HasEntry(wb0, decision.entry_id)
        THEN LET wb_row == EntryOf(wb0, decision.entry_id)
             IN  IF dh # <<>> /\ wb_row.headword_norm # <<>> /\ dh # wb_row.headword_norm
                   THEN IF resolved # 0 THEN [entry_id |-> resolved, reason |-> ""]
                        ELSE [entry_id |-> 0,
                              reason |-> "entry_id_headword_mismatch_unresolved"]
                 ELSE IF /\ dm # <<>>
                         /\ wb_row.meaning_ja_short # <<>>
                         /\ dm # wb_row.meaning_ja_short
                         /\ dh # <<>>
                   THEN IF resolved # 0 THEN [entry_id |-> resolved, reason |-> ""]
                        ELSE [entry_id |-> 0,
                              reason |-> "entry_id_meaning_mismatch_unresolved"]
                 ELSE [entry_id |-> decision.entry_id, reason |-> ""]
        ELSE IF resolved # 0 THEN [entry_id |-> resolved, reason |-> ""]
             ELSE IF dh # <<>> /\ Len(IdsOfHeadword(wb0, dh)) > 1
               THEN [entry_id |-> 0, reason |-> "headword_ambiguous"]
             ELSE [entry_id |-> 0, reason |-> "entry_not_found"]

\* the POS that the loop reads for an entry: wb_idx is the copy of the
\* wordbank made by set_index before the loop, the writes go to wb
OldPosRead(wb0, wb, entry_id) == EntryOf(wb0, entry_id).pos

RECURSIVE ApplyCandidates(_, _, _, _, _, _)
\* the second loop: wb0 is the indexed copy read by the loop, wb the frame
\* being written, applied and ignored the logs so far, writes the POS writes
\* made to wb so far, each with the POS that wb held just before it
ApplyCandidates(cands, wb0, wb, applied, ignored, writes) ==
  IF cands = <<>>
    THEN [wb |-> wb, applied |-> applied, ignored |-> ignored, writes |-> writes]
  ELSE
    LET decision == Head(cands)
        res == Resolution(wb0, decision)
    IN  IF res.entry_id = 0
          THEN ApplyCandidates(Tail(cands), wb0, wb, applied,
                 Append(ignored,
                        [entry_id |-> decision.entry_id,
                         decision_pos |-> decision.decision_pos,
                         status |-> decision.status,
                         batch_file |-> decision.batch_file,
                         row_index |-> decision.row_index,
                         reason |-> res.reason]),
                 writes)
          ELSE
            LET row == EntryOf(wb0, res.entry_id)
                old_pos == OldPosRead(wb0, wb, res.entry_id)
                new_pos == PosOfText(decision.decision_pos)
                changed == old_pos # new_pos
                wb1 == IF changed
                         THEN [wb EXCEPT !.rows = [i \in 1..Len(wb.rows) |->
                                IF wb.rows[i].entry_id = res.entry_id
                                  THEN OverrideRow(wb.rows[i], old_pos, new_pos,
                                                   "manual_batch_confirm",
                                                   Max(row.pos_confidence, 95))
                                  ELSE wb.rows[i]]]
                         ELSE wb
            IN  ApplyCandidates(Tail(cands), wb0, wb1,
                  Append(applied,
                         [source_entry_id |-> decision.entry_id,
                          entry_id |-> res.entry_id,
                          headword_norm |-> row.headword_norm,
                          before_pos |-> old_pos,
                          after_pos |-> new_pos,
                          changed |-> changed,
                          decision_reason |-> decision.decision_reason,
                          reviewer |-> decision.reviewer,
                          status |-> decision.status,
                          batch_file |-> decision.batch_file,
                          row_index |-> decision.row_index]),
                  ignored,
                  IF changed
                    THEN Append(writes,
                                [stage |-> "manual",
                                 entry_id |-> res.entry_id,
                                 before |-> EntryOf(wb, res.entry_id).pos,
                                 after |-> new_pos,
                                 secondary |-> old_pos])
                    ELSE writes)

\* rows ignored by the first loop, in reading order
ValidationIgnored(read) ==
  LET bad == SelectSeq(read, LAMBDA r : RowVerdict(r) \in
                                          {"invalid_decision_pos", "status_not_ready"})
  IN  [i \in 1..Len(bad) |-> IgnoredRecord(bad[i], RowVerdict(bad[i]))]

\* apply_manual_batch_decisions: the frames (applied, wb, ignored), and the
\* POS writes made to wb in the order of the loop
apply_manual_batch_decisions(wb, dir) ==
  LET batch_files == BatchFiles(dir)
      read == ReadFiles(batch_files)
      candidates == SortedCandidates(read)
      out == ApplyCandidates(candidates, wb, wb, <<>>, ValidationIgnored(read), <<>>)
  IN  IF IsEmpty(wb) \/ ~dir.given \/ batch_files = <<>>
        THEN [applied |-> FrameWithCols(<<>>), wb |-> wb, ignored |-> FrameWithCols(<<>>),
              writes |-> <<>>]
      ELSE IF candidates = <<>>
        THEN [applied |-> FrameWithCols(<<>>), wb |-> wb,
              ignored |-> FrameWithCols(ValidationIgnored(read)), writes |-> <<>>]
      ELSE [applied |-> FrameWithCols(out.applied), wb |-> out.wb,
            ignored |-> FrameWithCols(out.ignored), writes |-> out.writes]

----------------------------------------------------------------------------
(* Prefill and batching *)

\* max(candidate_map.items(), key=count)[0]: the first POS with the most votes
TopPos(pos_candidates) ==
  IF pos_candidates = <<>> THEN ""
  ELSE pos_candidates[CHOOSE i \in 1..Len(pos_candidates) :
         /\ \A j \in 1..Len(pos_candidates) :
              pos_candidates[j].count <= pos_candidates[i].count
         /\ \A j \in 1..(i - 1) :
              pos_candidates[j].count < pos_candidates[i].count].key

\* a prefill that suggests the POS with the most votes
PrefillRowSuggestsTop(row) ==
  LET current_pos == row.pos_current
      evidence == row.pos_evidence
      top_pos == TopPos(row.pos_candidates)
      rule ==
        IF current_pos \notin PosSet THEN ""
        ELSE IF evidence # "" /\ evidence # "fallback_noun" /\ top_pos = current_pos
          THEN "keep_current_non_fallback"
        ELSE IF /\ row.jp_hint_pos # ""
                /\ row.jp_hint_pos = current_pos
                /\ top_pos = current_pos
          THEN "keep_current_jp_hint_match"
        ELSE IF /\ current_pos = "noun"
                /\ evidence = "fallback_noun"
                /\ row.source_count >= 1
                /\ row.pos_score_margin >= 100
          THEN "keep_current_noun_margin1_sources1"
        ELSE ""
  IN  [row EXCEPT
         !.decision_pos = IF rule # "" THEN top_pos ELSE "",
         !.decision_reason = IF rule # "" THEN "prefill_" \o rule ELSE "",
         !.reviewer = IF rule # "" THEN "auto_prefill" ELSE "",
         !.status = IF rule # "" THEN "todo_prefill" ELSE "todo"]
      @@ [prefill_rule |-> rule, is_prefilled |-> rule # ""]

\* a prefill that leaves the status of a suggested row empty
PrefillRowLeavesStatus(row) ==
  LET current_pos == row.pos_current
      evidence == row.pos_evidence
      jp_hint_pos == row.jp_hint_pos
      top_pos == TopPos(row.pos_candidates)
      rule ==
        IF current_pos \notin PosSet THEN ""
        ELSE IF evidence # "" /\ evidence # "fallback_noun" /\ top_pos = current_pos
          THEN "keep_current_non_fallback"
        ELSE IF jp_hint_pos # "" /\ jp_hint_pos = current_pos /\ top_pos = current_pos
          THEN "keep_current_jp_hint_match"
        ELSE IF /\ current_pos = "noun"
                /\ evidence = "fallback_noun"
                /\ row.source_count >= 1
                /\ row.pos_score_margin >= 100
          THEN "keep_current_noun_margin1_sources1"
        ELSE ""
  IN  IF row.decision_pos # ""
        THEN row @@ [prefill_rule |-> "existing_manual_input", is_prefilled |-> FALSE]
        ELSE [row EXCEPT
                !.decision_pos = IF rule # "" THEN current_pos ELSE "",
                !.decision_reason =
                   IF rule = "keep_current_non_fallback"
                     THEN "prefill_keep_current_non_fallback:" \o evidence
                   ELSE IF rule # "" THEN "prefill_" \o rule ELSE "",
                !.reviewer = IF rule # "" THEN "auto_prefill" ELSE "",
                !.status = IF rule # "" THEN ""
                           ELSE IF row.status # "" THEN row.status ELSE "todo"]
             @@ [prefill_rule |-> rule, is_prefilled |-> rule # ""]

\* the prefilled row of a queue row
PrefillRow(row) ==
  LET current_pos == row.pos_current
      evidence == row.pos_evidence
      jp_hint_pos == row.jp_hint_pos
      top_pos == TopPos(row.pos_candidates)
      rule ==
        IF current_pos \notin PosSet THEN ""
        ELSE IF evidence # "" /\ evidence # "fallback_noun" /\ top_pos = current_pos
          THEN "keep_current_non_fallback"
        ELSE IF jp_hint_pos # "" /\ jp_hint_pos = current_pos /\ top_pos = current_pos
          THEN "keep_current_jp_hint_match"
        ELSE IF /\ current_pos = "noun"
                /\ evidence = "fallback_noun"
                /\ row.source_count >= 1
                /\ row.pos_score_margin >= 100
          THEN "keep_current_noun_margin1_sources1"
        ELSE ""
  IN  IF row.decision_pos # ""
        THEN row @@ [prefill_rule |-> "existing_manual_input", is_prefilled |-> FALSE]
        ELSE [row EXCEPT
                !.decision_pos = IF rule # "" THEN current_pos ELSE "",
                !.decision_reason =
                   IF rule = "keep_current_non_fallback"
                     THEN "prefill_keep_current_non_fallback:" \o evidence
                   ELSE IF rule # "" THEN "prefill_" \o rule ELSE "",
                !.reviewer = IF rule # "" THEN "auto_prefill" ELSE "",
                !.status = IF rule # "" THEN "todo_prefill"
                           ELSE IF row.status # "" THEN row.status ELSE "todo"]
             @@ [prefill_rule |-> rule, is_prefilled |-> rule # ""]

prefill_manual_queue_decisions(queue) ==
  IF IsEmpty(queue) THEN queue
  ELSE [queue EXCEPT !.rows = [i \in 1..Len(queue.rows) |-> PrefillRow(queue.rows[i])]]

\* sort_values(["_priority_rank", "_review_score", "_stage", "_source_count",
\* "headword_norm"], ascending=[True, False, True, False, True])
BatchLess(a, b) ==
  LET Rank(p) == CASE p = "HIGH" -> 0 [] p = "MEDIUM" -> 1 [] OTHER -> 9
      ka == <<Rank(a.review_priority), 0 - a.review_score, a.stage, 0 - a.source_count>>
      kb == <<Rank(b.review_priority), 0 - b.review_score, b.stage, 0 - b.source_count>>
  IN  StrLess(ka, kb) \/ (ka = kb /\ StrLess(a.headword_norm, b.headword_norm))

\* the batch files written by write_manual_batches, in order
write_manual_batches(queue_prefilled, batch_count) ==
  LET sorted == StableSort(queue_prefilled.rows, BatchLess)
      queue == [i \in 1..Len(sorted) |-> sorted[i] @@ [global_rank |-> i]]
      n == Len(queue)
      batch_size == Max(1, (n + Max(1, batch_count) - 1) \div Max(1, batch_count))
      batches == (n + batch_size - 1) \div batch_size
  IN  IF IsEmpty(queue_prefilled) THEN <<>>
      ELSE [b \in 1..batches |->
              [batch_seq |-> b,
               rows |-> SubSeq(queue, (b - 1) * batch_size + 1, Min(n, b * batch_size))]]

----------------------------------------------------------------------------
(* Inputs *)

\* largest number of rows of a refined master table
MaxRows == 6

\* largest number of rows of a table given to the aggregator alone
MaxAggRows == 3

\* largest number of rows of a table aggregated for the manual intake alone
MaxManualRows == 2

\* largest number of decision rows in a directory of manual batches
MaxDecisions == 2

Eiken5 == <<33521, 26908, 32, 53, 32026>>       \* stage 1
Duo30 == <<68, 85, 79, 51, 46, 48>>             \* stage 3
Toefl == <<84, 79, 69, 70, 76>>                 \* stage 4
Kobun == <<21476, 25991, 21336, 35486>>         \* a classical Japanese book

WordRun == <<114, 117, 110>>
WordStudy == <<115, 116, 117, 100, 121>>
WordWell == <<119, 101, 108, 108>>
WordOperate == <<111, 112, 101, 114, 97, 116, 101>>
WordOperateDot == <<111, 112, 101, 114, 97, 116, 101, 46>>
WordHappy == <<104, 97, 112, 112, 121>>

GlossHashiru == <<36208, 12427>>                          \* dictionary-form verb
GlossHashiruKoto == <<36208, 12427, 12371, 12392>>        \* nominalised
GlossBenkyouNoun == <<12304, 21517, 12305, 21193, 24375>> \* tagged noun
GlossBenkyouSuru == <<21193, 24375, 12377, 12427>>        \* suru verb
GlossIdoNoun == <<12304, 21517, 12305, 20117, 25144>>     \* tagged noun
GlossYoku == <<12424, 12367>>
GlossWakuVerb == <<12304, 21205, 12305, 28263, 12367>>      \* tagged verb
GlossSousa == <<25805, 20316>>
GlossShiawase == <<24184, 12379>>
GlossMissing == <<91, 26410, 25277, 20986, 93>>           \* [未抽出]

SourceRow(book, number, word, mng) ==
  [book |-> book, number |-> number, word |-> word, meaning |-> mng]

\* rows of the refined master table fed to the whole run
RunRows ==
  <<SourceRow(Toefl, 1, WordStudy, GlossBenkyouNoun),
    SourceRow(Toefl, 2, WordStudy, GlossBenkyouNoun),
    SourceRow(Duo30, 1, WordStudy, GlossBenkyouSuru),
    SourceRow(Duo30, 2, WordStudy, GlossBenkyouSuru),
    SourceRow(Duo30, 3, WordOperateDot, GlossSousa),
    SourceRow(Duo30, 4, WordHappy, GlossShiawase),
    SourceRow(Toefl, 5, WordWell, GlossIdoNoun),
    SourceRow(Duo30, 5, WordWell, GlossIdoNoun),
    SourceRow(Toefl, 6, WordWell, GlossYoku),
    SourceRow(Kobun, 7, WordRun, GlossMissing)>>

\* rows of the tables aggregated for the manual intake alone
ManualRows == <<RunRows[1], RunRows[3], RunRows[6]>>

\* rows of the tables fed to the aggregator alone
AggRows ==
  <<SourceRow(Eiken5, 1, WordRun, GlossHashiruKoto),
    SourceRow(Toefl, 1, WordRun, GlossHashiru),
    SourceRow(Duo30, 1, WordRun, GlossHashiru),
    SourceRow(Toefl, 3, WordWell, GlossWakuVerb),
    SourceRow(Duo30, 2, WordOperate, GlossSousa),
    SourceRow(Duo30, 2, WordOperateDot, GlossSousa),
    SourceRow(Toefl, 3, WordWell, GlossYoku),
    SourceRow(Toefl, 3, WordWell, GlossIdoNoun)>>

\* the members of a set of numbers in increasing order
SetToSeq(S) ==
  [i \in 1..Cardinality(S) |-> CHOOSE x \in S : Cardinality({y \in S : y < x}) = i - 1]

\* the rows of a catalogue at the given indices, in the order of the catalogue
RowsAt(catalogue, indices) == [i \in 1..Len(indices) |-> catalogue[indices[i]]]

\* the tables of at most n rows of a catalogue, each row taken at most once
Tables(catalogue, n) ==
  {RowsAt(catalogue, SetToSeq(S)) :
     S \in {T \in SUBSET (1..Len(catalogue)) : Cardinality(T) <= n}}

\* texts of the cells of a manual batch file
TextVerb == <<118, 101, 114, 98>>
TextNounUpper == <<32, 78, 111, 117, 110>>                \* " Noun"
TextAdjective == <<97, 100, 106, 101, 99, 116, 105, 118, 101>>
TextAdj == <<97, 100, 106>>                               \* not a category
TextDone == <<100, 111, 110, 101>>
TextTodo == <<116, 111, 100, 111>>

DecisionRow(entry_id, hw, pos, status) ==
  [entry_id |-> entry_id, headword_norm |-> hw, meaning_ja_short |-> <<>>,
   decision_pos |-> pos, status |-> status,
   decision_reason |-> <<>>, reviewer |-> <<>>]

\* an entry id that no wordbank of the model holds
StaleId == Len(RunRows) + 1

\* rows of the manual batch files
DecisionRows ==
  <<DecisionRow(1, <<>>, TextVerb, TextDone),
    DecisionRow(1, <<>>, TextAdjective, <<>>),
    DecisionRow(StaleId, WordStudy, TextNounUpper, TextDone),
    DecisionRow(1, <<>>, TextVerb, TextTodo),
    DecisionRow(1, <<>>, TextAdj, TextTodo),
    DecisionRow(1, <<>>, <<>>, TextDone),
    DecisionRow(2, WordStudy, TextAdjective, TextDone),
    DecisionRow(0, WordStudy, TextAdj, TextDone),
    DecisionRow(1, WordHappy, TextVerb, TextDone),
    [DecisionRow(1, WordStudy, TextVerb, TextDone)
       EXCEPT !.meaning_ja_short = GlossSousa]>>

\* POS_MANUAL_BATCH_01.csv, POS_MANUAL_CHANGE_BATCH_01.csv, notes.csv
FileBatch01 ==
  <<80, 79, 83, 95, 77, 65, 78, 85, 65, 76, 95, 66, 65, 84, 67, 72, 95, 48, 49,
    46, 99, 115, 118>>
FileChange01 ==
  <<80, 79, 83, 95, 77, 65, 78, 85, 65, 76, 95, 67, 72, 65, 78, 71, 69, 95,
    66, 65, 84, 67, 72, 95, 48, 49, 46, 99, 115, 118>>
FileNotes == <<110, 111, 116, 101, 115, 46, 99, 115, 118>>

\* the sequences of at most n rows of the decision catalogue
DecisionSeqs(n) ==
  UNION {{[i \in 1..m |-> DecisionRows[s[i]]] : s \in [1..m -> 1..Len(DecisionRows)]} :
           m \in 0..n}

NoDirectory == [given |-> FALSE, files |-> <<>>]

\* the directories of manual batches: no directory, one file, or two files
\* in either order of the directory listing
Directories ==
  {NoDirectory}
    \cup {[given |-> TRUE, files |-> <<[name |-> n, rows |-> r]>>] :
            n \in {FileBatch01, FileNotes}, r \in DecisionSeqs(MaxDecisions)}
    \cup {[given |-> TRUE,
           files |-> IF swap THEN <<[name |-> FileChange01, rows |-> rs[2]],
                                    [name |-> FileBatch01, rows |-> rs[1]]>>
                     ELSE <<[name |-> FileBatch01, rows |-> rs[1]],
                            [name |-> FileChange01, rows |-> rs[2]]>>] :
            swap \in BOOLEAN,
            rs \in {p \in DecisionSeqs(MaxDecisions) \X DecisionSeqs(MaxDecisions) :
                      Len(p[1]) >= 1 /\ Len(p[2]) >= 1
                        /\ Len(p[1]) + Len(p[2]) <= MaxDecisions}}

\* the directories given to a whole run: none, or one file of one or two rows
RunDirectories ==
  {NoDirectory}
    \cup {[given |-> TRUE, files |-> <<[name |-> FileBatch01, rows |-> r]>>] :
            r \in {<<DecisionRows[1]>>, <<DecisionRows[7], DecisionRows[3]>>,
                   <<DecisionRows[2], DecisionRows[4]>>}}

----------------------------------------------------------------------------
(* Runs *)

\* the POS writes of an automated pass, read off the frames before and after
\* it (a pass writes an entry at most once)
StageChanges(stage, before, after) ==
  LET changed == SelectSeq([i \in 1..Len(before.rows) |-> i],
                           LAMBDA i : after.rows[i].pos # before.rows[i].pos)
  IN  [k \in 1..Len(changed) |->
         [stage |-> stage,
          entry_id |-> before.rows[changed[k]].entry_id,
          before |-> before.rows[changed[k]].pos,
          after |-> after.rows[changed[k]].pos,
          secondary |-> after.rows[changed[k]].pos_secondary]]

callVars == <<headword, meaning, inferred>>
tableVars == <<refined, refined_in>>
highVars == <<pos_high_confirmations, wordbank_high_confirmed>>
mediumVars == <<pos_medium_confirmations, wordbank_high_medium_confirmed>>
queueVars == <<pos_manual_queue, pos_manual_queue_quickwin>>
quickwinVars == <<pos_quickwin_confirmations, wordbank_high_medium_quickwin_confirmed>>
manualVars ==
  <<manual_batches_dir, pos_manual_applied, wordbank_final_confirmed, pos_manual_ignored>>
tailVars ==
  <<pos_manual_queue_final_remaining, pos_manual_queue_final_prefilled,
    manual_batch_files, manual_batch_count>>

\* the state before anything has run
\* main: batch_count=10 in the call of write_manual_batches
MainBatchCount == 10

Blank(pc0, hw, mng, table) ==
  /\ pc = pc0
  /\ headword = hw
  /\ meaning = mng
  /\ inferred = [pos |-> "", conf |-> 0, evidence |-> ""]
  /\ refined = table
  /\ refined_in = table
  /\ manual_batches_dir = NoDirectory
  /\ wordbank = NoFrame
  /\ pos_review = NoFrame
  /\ pos_high_confirmations = NoFrame
  /\ wordbank_high_confirmed = NoFrame
  /\ pos_medium_confirmations = NoFrame
  /\ wordbank_high_medium_confirmed = NoFrame
  /\ pos_manual_queue = NoFrame
  /\ pos_manual_queue_quickwin = NoFrame
  /\ pos_quickwin_confirmations = NoFrame
  /\ wordbank_high_medium_quickwin_confirmed = NoFrame
  /\ pos_manual_queue_remaining = NoFrame
  /\ pos_manual_applied = NoFrame
  /\ wordbank_final_confirmed = NoFrame
  /\ pos_manual_ignored = NoFrame
  /\ pos_manual_queue_final_remaining = NoFrame
  /\ pos_manual_queue_final_prefilled = NoFrame
  /\ manual_batch_files = <<>>
  /\ manual_batch_count = MainBatchCount
  /\ reapplied = [applied |-> NoFrame, wb |-> NoFrame, ignored |-> NoFrame,
                  writes |-> <<>>]
  /\ pos_changes = <<>>

Init == \E table \in Tables(RunRows, MaxRows) : Blank("start", <<>>, <<>>, table)

\* main: build_original_wordbank(refined)
Aggregate ==
  /\ pc = "start"
  /\ wordbank' = build_original_wordbank(refined)
  /\ pc' = "aggregated"
  /\ UNCHANGED <<callVars, tableVars, pos_review, highVars, mediumVars, queueVars,
                 quickwinVars, pos_manual_queue_remaining, manualVars, tailVars,
                 reapplied, pos_changes>>

\* main: build_pos_review_candidates(wordbank)
Triage ==
  /\ pc = "aggregated"
  /\ ~build_pos_review_candidates_raises(wordbank)
  /\ pos_review' = build_pos_review_candidates(wordbank)
  /\ pc' = "triaged"
  /\ UNCHANGED <<callVars, tableVars, wordbank, highVars, mediumVars, queueVars,
                 quickwinVars, pos_manual_queue_remaining, manualVars, tailVars,
                 reapplied, pos_changes>>

\* the sort of the review frame built from no row raises KeyError
TriageRaises ==
  /\ pc = "aggregated"
  /\ build_pos_review_candidates_raises(wordbank)
  /\ pc' = "raised"
  /\ UNCHANGED <<callVars, tableVars, wordbank, pos_review, highVars, mediumVars,
                 queueVars, quickwinVars, pos_manual_queue_remaining, manualVars,
                 tailVars, reapplied, pos_changes>>

\* main: confirm_high_priority_pos(wordbank, pos_review_high)
ConfirmHigh ==
  /\ pc = "triaged"
  /\ LET out == confirm_high_priority_pos(wordbank, ReviewSubset(pos_review, "HIGH"))
     IN  /\ pos_high_confirmations' = out[1]
         /\ wordbank_high_confirmed' = out[2]
         /\ pos_changes' = pos_changes \o StageChanges("high", wordbank, out[2])
  /\ pc' = "high_confirmed"
  /\ UNCHANGED <<callVars, tableVars, wordbank, pos_review, mediumVars, queueVars,
                 quickwinVars, pos_manual_queue_remaining, manualVars, tailVars,
                 reapplied>>

\* main: confirm_priority_pos(wordbank_high_confirmed, pos_review_medium, ...)
ConfirmMedium ==
  /\ pc = "high_confirmed"
  /\ LET out == confirm_priority_pos(wordbank_high_confirmed,
                                     ReviewSubset(pos_review, "MEDIUM"),
                                     "MEDIUM", "medium_confirm")
     IN  /\ pos_medium_confirmations' = out[1]
         /\ wordbank_high_medium_confirmed' = out[2]
         /\ pos_changes' =
              pos_changes \o StageChanges("medium", wordbank_high_confirmed, out[2])
  /\ pc' = "medium_confirmed"
  /\ UNCHANGED <<callVars, tableVars, wordbank, pos_review, highVars, queueVars,
                 quickwinVars, pos_manual_queue_remaining, manualVars, tailVars,
                 reapplied>>

\* main: build_high_medium_manual_queue(...)
BuildQueue ==
  /\ pc = "medium_confirmed"
  /\ LET out == build_high_medium_manual_queue(pos_review, pos_high_confirmations,
                                               pos_medium_confirmations)
     IN  /\ pos_manual_queue' = out[1]
         /\ pos_manual_queue_quickwin' = out[2]
  /\ pc' = "queued"
  /\ UNCHANGED <<callVars, tableVars, wordbank, pos_review, highVars, mediumVars,
                 quickwinVars, pos_manual_queue_remaining, manualVars, tailVars,
                 reapplied, pos_changes>>

\* main: apply_quickwin_confirmations(wordbank_high_medium_confirmed, quickwin)
ApplyQuickwin ==
  /\ pc = "queued"
  /\ LET out == apply_quickwin_confirmations(wordbank_high_medium_confirmed,
                                             pos_manual_queue_quickwin)
     IN  /\ pos_quickwin_confirmations' = out[1]
         /\ wordbank_high_medium_quickwin_confirmed' = out[2]
         /\ pos_changes' =
              pos_changes \o StageChanges("quickwin", wordbank_high_medium_confirmed,
                                          out[2])
  /\ pc' = "quickwin_applied"
  /\ UNCHANGED <<callVars, tableVars, wordbank, pos_review, highVars, mediumVars,
                 queueVars, pos_manual_queue_remaining, manualVars, tailVars,
                 reapplied>>

\* queue[queue["entry_id"].isin(log["entry_id"])], the selection without its
\* negation
RemoveLoggedInverted(queue, log) ==
  FrameWithCols(SelectSeq(queue.rows,
                          LAMBDA r : \E i \in 1..Len(log.rows) :
                                       log.rows[i].entry_id = r.entry_id))

\* the queue with no row removed
RemoveLoggedKeepsAll(queue, log) == FrameWithCols(queue.rows)

\* queue[~queue["entry_id"].isin(log["entry_id"])]
RemoveLogged(queue, log) ==
  FrameWithCols(SelectSeq(queue.rows,
                          LAMBDA r : \A i \in 1..Len(log.rows) :
                                       log.rows[i].entry_id # r.entry_id))

\* main: the queue that remains after the quick-win pass
QueueRemaining ==
  /\ pc = "quickwin_applied"
  /\ HasColumns(pos_manual_queue)
  /\ HasColumns(pos_quickwin_confirmations)
  /\ pos_manual_queue_remaining' =
       RemoveLogged(pos_manual_queue, pos_quickwin_confirmations)
  /\ pc' = "remaining"
  /\ UNCHANGED <<callVars, tableVars, wordbank, pos_review, highVars, mediumVars,
                 queueVars, quickwinVars, manualVars, tailVars, reapplied, pos_changes>>

\* the selection of the column entry_id of a frame without columns raises
\* KeyError
QueueRemainingRaises ==
  /\ pc = "quickwin_applied"
  /\ ~(HasColumns(pos_manual_queue) /\ HasColumns(pos_quickwin_confirmations))
  /\ pc' = "raised"
  /\ UNCHANGED <<callVars, tableVars, wordbank, pos_review, highVars, mediumVars,
                 queueVars, quickwinVars, pos_manual_queue_remaining, manualVars,
                 tailVars, reapplied, pos_changes>>

\* main: apply_manual_batch_decisions(wordbank_high_medium_quickwin_confirmed,
\* args.manual_batches_dir)
ApplyManual ==
  /\ pc = "remaining"
  /\ \E dir \in RunDirectories :
       LET out == apply_manual_batch_decisions(wordbank_high_medium_quickwin_confirmed,
                                               dir)
       IN  /\ manual_batches_dir' = dir
           /\ pos_manual_applied' = out.applied
           /\ wordbank_final_confirmed' = out.wb
           /\ pos_manual_ignored' = out.ignored
           /\ pos_changes' = pos_changes \o out.writes
  /\ pc' = "manual_applied"
  /\ UNCHANGED <<callVars, tableVars, wordbank, pos_review, highVars, mediumVars,
                 queueVars, quickwinVars, pos_manual_queue_remaining, tailVars,
                 reapplied>>

\* main: the final queue, its prefill, the batch files and the reports
FinalQueue ==
  /\ pc = "manual_applied"
  /\ LET final_remaining == RemoveLogged(pos_manual_queue_remaining, pos_manual_applied)
         prefilled == prefill_manual_queue_decisions(final_remaining)
     IN  /\ pos_manual_queue_final_remaining' = final_remaining
         /\ pos_manual_queue_final_prefilled' = prefilled
         /\ manual_batch_files' = write_manual_batches(prefilled, manual_batch_count)
  /\ pc' = "done"
  /\ UNCHANGED <<manual_batch_count, callVars, tableVars, wordbank, pos_review, highVars, mediumVars,
                 queueVars, quickwinVars, pos_manual_queue_remaining, manualVars,
                 reapplied, pos_changes>>

Next ==
  \/ Aggregate
  \/ Triage
  \/ TriageRaises
  \/ ConfirmHigh
  \/ ConfirmMedium
  \/ BuildQueue
  \/ ApplyQuickwin
  \/ QueueRemaining
  \/ QueueRemainingRaises
  \/ ApplyManual
  \/ FinalQueue

Spec == Init /\ [][Next]_vars

----------------------------------------------------------------------------
(* The classifier alone *)

InitInfer ==
  \E hw \in Headwords, mng \in Glosses : Blank("call", hw, mng, <<>>)

InferPos ==
  /\ pc = "call"
  /\ inferred' = infer_pos(headword, meaning)
  /\ pc' = "returned"
  /\ UNCHANGED <<headword, meaning, tableVars, wordbank, pos_review, highVars,
                 mediumVars, queueVars, quickwinVars, pos_manual_queue_remaining,
                 manualVars, tailVars, reapplied, pos_changes>>

NextInfer == InferPos

SpecInfer == InitInfer /\ [][NextInfer]_vars

----------------------------------------------------------------------------
(* The aggregator alone, on reordered tables *)

InitAgg == \E table \in Tables(AggRows, MaxAggRows) : Blank("table", <<>>, <<>>, table)

\* the same rows reach the aggregator in another order
Reorder ==
  /\ pc = "table"
  /\ \E i \in 1..(Len(refined) - 1) :
       /\ refined[i] # refined[i + 1]
       /\ refined' = [refined EXCEPT ![i] = refined[i + 1], ![i + 1] = refined[i]]
  /\ UNCHANGED <<pc, callVars, refined_in, wordbank, pos_review, highVars, mediumVars,
                 queueVars, quickwinVars, pos_manual_queue_remaining, manualVars,
                 tailVars, reapplied, pos_changes>>

AggregateTable ==
  /\ pc = "table"
  /\ wordbank' = build_original_wordbank(refined)
  /\ pc' = "grouped"
  /\ UNCHANGED <<callVars, tableVars, pos_review, highVars, mediumVars, queueVars,
                 quickwinVars, pos_manual_queue_remaining, manualVars, tailVars,
                 reapplied, pos_changes>>

NextAgg == Reorder \/ AggregateTable

SpecAgg == InitAgg /\ [][NextAgg]_vars

----------------------------------------------------------------------------
(* Manual batch intake alone, applied twice *)

InitManual ==
  \E table \in Tables(ManualRows, MaxManualRows) : Blank("start", <<>>, <<>>, table)

\* apply_manual_batch_decisions(W, B) on an aggregated wordbank W
ApplyDecisions ==
  /\ pc = "aggregated"
  /\ \E dir \in Directories :
       LET out == apply_manual_batch_decisions(wordbank, dir)
       IN  /\ manual_batches_dir' = dir
           /\ pos_manual_applied' = out.applied
           /\ wordbank_final_confirmed' = out.wb
           /\ pos_manual_ignored' = out.ignored
           /\ pos_changes' = pos_changes \o out.writes
  /\ pc' = "applied"
  /\ UNCHANGED <<callVars, tableVars, wordbank, pos_review, highVars, mediumVars,
                 queueVars, quickwinVars, pos_manual_queue_remaining, tailVars,
                 reapplied>>

\* apply_manual_batch_decisions(W1, B) on the wordbank W1 that the first
\* application returned
ReapplyManual ==
  /\ pc = "applied"
  /\ reapplied' = apply_manual_batch_decisions(wordbank_final_confirmed,
                                               manual_batches_dir)
  /\ pc' = "reapplied"
  /\ UNCHANGED <<callVars, tableVars, wordbank, pos_review, highVars, mediumVars,
                 queueVars, quickwinVars, pos_manual_queue_remaining, manualVars,
                 tailVars, pos_changes>>

NextManual == Aggregate \/ ApplyDecisions \/ ReapplyManual

SpecManual == InitManual /\ [][NextManual]_vars


----------------------------------------------------------------------------
(* Prefill and batching alone, on a final remaining queue *)

MaxQueueRows == 4
MaxBatchCount == 3

\* a row of the manual queue as prefill_manual_queue_decisions receives it
QueueEntry(entry_id, hw, priority, score, stage, source_count, pos, evidence,
           hint, candidates, margin) ==
  [entry_id |-> entry_id, headword_norm |-> hw, review_priority |-> priority,
   review_score |-> score, stage |-> stage, source_count |-> source_count,
   pos_current |-> pos, pos_evidence |-> evidence, jp_hint_pos |-> hint,
   pos_candidates |-> candidates, pos_score_margin |-> margin,
   decision_pos |-> "", decision_reason |-> "", reviewer |-> "", status |-> "todo"]

Votes(pos, count) == [key |-> pos, count |-> count]

QueueRows ==
  <<QueueEntry(1, WordHappy, "HIGH", 9, 4, 1, "noun", "fallback_noun", "",
               <<Votes("noun", 1)>>, 4850),
    QueueEntry(2, WordStudy, "MEDIUM", 7, 2, 2, "noun", "explicit_tag:noun", "verb",
               <<Votes("noun", 2), Votes("verb", 2)>>, 1200),
    QueueEntry(3, WordWell, "MEDIUM", 7, 2, 2, "noun", "fallback_noun", "noun",
               <<Votes("noun", 2), Votes("adverb", 1)>>, 50),
    QueueEntry(4, WordOperate, "MEDIUM", 5, 4, 1, "noun", "fallback_noun", "",
               <<Votes("noun", 1), Votes("adjective", 1)>>, 50),
    QueueEntry(5, WordRun, "HIGH", 8, 1, 3, "verb", "meaning_dict_form_verb", "",
               <<Votes("noun", 2), Votes("verb", 1)>>, 796),
    QueueEntry(6, WordOperateDot, "HIGH", 9, 4, 2, "noun", "fallback_noun", "verb",
               <<Votes("verb", 2), Votes("noun", 2)>>, 200),
    QueueEntry(7, WordRun, "MEDIUM", 6, 3, 1, "verb", "meaning_dict_form_verb", "verb",
               <<Votes("verb", 1)>>, 9721)>>

\* the wordbank entries that the rows of a queue were drawn from, as far as
\* the queue shows them
QueueEntries(queue) ==
  [i \in 1..Len(queue) |->
     [entry_id |-> queue[i].entry_id, headword_norm |-> queue[i].headword_norm,
      pos |-> queue[i].pos_current, pos_evidence |-> queue[i].pos_evidence,
      source_count |-> queue[i].source_count,
      pos_candidates |-> queue[i].pos_candidates,
      pos_score_margin |-> queue[i].pos_score_margin]]

InitBatches ==
  \E queue \in Tables(QueueRows, MaxQueueRows), count \in 1..MaxBatchCount :
    /\ pc = "queue"
    /\ headword = <<>>
    /\ meaning = <<>>
    /\ inferred = [pos |-> "", conf |-> 0, evidence |-> ""]
    /\ refined = <<>>
    /\ refined_in = <<>>
    /\ manual_batches_dir = NoDirectory
    /\ wordbank = NoFrame
    /\ pos_review = NoFrame
    /\ pos_high_confirmations = NoFrame
    /\ wordbank_high_confirmed = NoFrame
    /\ pos_medium_confirmations = NoFrame
    /\ wordbank_high_medium_confirmed = NoFrame
    /\ pos_manual_queue = NoFrame
    /\ pos_manual_queue_quickwin = NoFrame
    /\ pos_quickwin_confirmations = NoFrame
    /\ wordbank_high_medium_quickwin_confirmed = NoFrame
    /\ pos_manual_queue_remaining = NoFrame
    /\ pos_manual_applied = NoFrame
    /\ wordbank_final_confirmed = FrameWithCols(QueueEntries(queue))
    /\ pos_manual_ignored = NoFrame
    /\ pos_manual_queue_final_remaining = FrameWithCols(queue)
    /\ pos_manual_queue_final_prefilled = NoFrame
    /\ manual_batch_files = <<>>
    /\ manual_batch_count = count
    /\ reapplied = [applied |-> NoFrame, wb |-> NoFrame, ignored |-> NoFrame,
                    writes |-> <<>>]
    /\ pos_changes = <<>>

\* main: prefill_manual_queue_decisions(pos_manual_queue_final_remaining)
Prefill ==
  /\ pc = "queue"
  /\ pos_manual_queue_final_prefilled' =
       prefill_manual_queue_decisions(pos_manual_queue_final_remaining)
  /\ pc' = "prefilled"
  /\ UNCHANGED <<callVars, tableVars, wordbank, pos_review, highVars, mediumVars,
                 queueVars, quickwinVars, pos_manual_queue_remaining, manualVars,
                 pos_manual_queue_final_remaining, manual_batch_files,
                 manual_batch_count, reapplied, pos_changes>>

\* main: write_manual_batches(pos_manual_queue_final_prefilled, ..., batch_count)
WriteBatches ==
  /\ pc = "prefilled"
  /\ manual_batch_files' =
       write_manual_batches(pos_manual_queue_final_prefilled, manual_batch_count)
  /\ pc' = "batched"
  /\ UNCHANGED <<callVars, tableVars, wordbank, pos_review, highVars, mediumVars,
                 queueVars, quickwinVars, pos_manual_queue_remaining, manualVars,
                 pos_manual_queue_final_remaining, pos_manual_queue_final_prefilled,
                 manual_batch_count, reapplied, pos_changes>>

NextBatches == Prefill \/ WriteBatches

SpecBatches == InitBatches /\ [][NextBatches]_vars

----------------------------------------------------------------------------
(* Triage alone, on a wordbank of one entry and its companions *)

MaxCompanions == 1

\* confidence, evidence and POS as infer_pos returns them together
TriageEvidence ==
  {<<45, "fallback_noun", "noun">>,
   <<65, "meaning_noun_marker", "noun">>,
   <<70, "verb_suffix", "verb">>,
   <<74, "adjective_suffix", "adjective">>,
   <<94, "explicit_tag:verb", "verb">>}

\* score margins around the two thresholds, in hundredths
TriageMargins == {0, 1499, 1500, 3499, 3500, 9000}
TriageSourceCounts == {1, 4, 5}
TriageStages == {1, 3, 4, 5}

\* a wordbank row, as far as build_pos_review_candidates reads it
TriageEntry(entry_id, hw, inferredAs, margin, multi, source_count, stage) ==
  [entry_id |-> entry_id,
   headword |-> hw,
   headword_norm |-> hw,
   meaning_ja_short |-> <<>>,
   pos |-> inferredAs[3],
   pos_label_ja |-> POS_LABEL_JA(inferredAs[3]),
   pos_secondary |-> IF multi THEN "other" ELSE "",
   pos_candidates |-> IF multi THEN <<Votes(inferredAs[3], 1), Votes("other", 1)>>
                      ELSE <<Votes(inferredAs[3], 1)>>,
   pos_confidence |-> inferredAs[1],
   pos_score_margin |-> margin,
   is_multi_pos |-> multi,
   pos_evidence |-> inferredAs[2],
   stage |-> stage,
   source_count |-> source_count]

TriageCompanions ==
  <<TriageEntry(2, WordRun, <<94, "explicit_tag:verb", "verb">>, 9000, FALSE, 1, 1),
    TriageEntry(3, WordWell, <<45, "fallback_noun", "noun">>, 0, TRUE, 5, 4)>>

InitTriage ==
  \E inferredAs \in TriageEvidence, margin \in TriageMargins, multi \in BOOLEAN,
     source_count \in TriageSourceCounts, stage \in TriageStages,
     companions \in Tables(TriageCompanions, MaxCompanions) :
    /\ pc = "aggregated"
    /\ headword = <<>>
    /\ meaning = <<>>
    /\ inferred = [pos |-> "", conf |-> 0, evidence |-> ""]
    /\ refined = <<>>
    /\ refined_in = <<>>
    /\ manual_batches_dir = NoDirectory
    /\ wordbank = FrameWithCols(
                    <<TriageEntry(1, WordStudy, inferredAs, margin, multi,
                                  source_count, stage)>> \o companions)
    /\ pos_review = NoFrame
    /\ pos_high_confirmations = NoFrame
    /\ wordbank_high_confirmed = NoFrame
    /\ pos_medium_confirmations = NoFrame
    /\ wordbank_high_medium_confirmed = NoFrame
    /\ pos_manual_queue = NoFrame
    /\ pos_manual_queue_quickwin = NoFrame
    /\ pos_quickwin_confirmations = NoFrame
    /\ wordbank_high_medium_quickwin_confirmed = NoFrame
    /\ pos_manual_queue_remaining = NoFrame
    /\ pos_manual_applied = NoFrame
    /\ wordbank_final_confirmed = NoFrame
    /\ pos_manual_ignored = NoFrame
    /\ pos_manual_queue_final_remaining = NoFrame
    /\ pos_manual_queue_final_prefilled = NoFrame
    /\ manual_batch_files = <<>>
    /\ manual_batch_count = MainBatchCount
    /\ reapplied = [applied |-> NoFrame, wb |-> NoFrame, ignored |-> NoFrame,
                    writes |-> <<>>]
    /\ pos_changes = <<>>

NextTriage == Triage \/ TriageRaises

SpecTriage == InitTriage /\ [][NextTriage]_vars

----------------------------------------------------------------------------
(* The confirmation passes on one headword with many votes *)

MaxPrimaryVotes == 10
MaxSecondaryVotes == 6

GlossJoutai == <<29366, 24907>>                 \* a noun marker
GlossUreshii == <<23305, 12375, 12356>>         \* dictionary-form i-adjective
GlossShiawaseNa == <<24184, 12379, 12394>>      \* dictionary-form na-adjective

\* the glosses of the rows that vote for the noun
PrimaryGlosses == {GlossSousa, GlossJoutai}
\* the glosses of the rows that vote against it
SecondaryGlosses == {GlossUreshii, GlossShiawaseNa}
\* the glosses of a first row of the group that carries a marker, <<>> for
\* no such row
LeadGlosses == {<<>>, GlossBenkyouSuru, GlossShiawaseNa}

\* a refined master table of one headword: a first row with the lead gloss,
\* then the rows of the primary gloss from a stage 1 book, and the rows of
\* the secondary gloss from a stage 4 book
VoteTable(lead, primary, primaries, secondary, secondaries) ==
  (IF lead = <<>> THEN <<>> ELSE <<SourceRow(Eiken5, 1, WordHappy, lead)>>)
    \o [i \in 1..primaries |-> SourceRow(Eiken5, i + 1, WordHappy, primary)]
    \o [i \in 1..secondaries |-> SourceRow(Toefl, i, WordHappy, secondary)]

InitConfirm ==
  \E lead \in LeadGlosses, primary \in PrimaryGlosses, secondary \in SecondaryGlosses,
     primaries \in 0..MaxPrimaryVotes, secondaries \in 0..MaxSecondaryVotes :
    Blank("start", <<>>, <<>>,
          VoteTable(lead, primary, primaries, secondary, secondaries))

NextConfirm == Aggregate \/ Triage \/ TriageRaises \/ ConfirmHigh \/ ConfirmMedium

SpecConfirm == InitConfirm /\ [][NextConfirm]_vars

----------------------------------------------------------------------------
(* A run whose written batch files are handed to the manual intake unedited *)

MaxRefeedRows == 9

\* rows of the refined master table of such a run
RefeedRows ==
  <<SourceRow(Duo30, 4, WordHappy, GlossShiawase),
    SourceRow(Eiken5, 1, WordRun, GlossHashiru),
    SourceRow(Toefl, 1, WordRun, GlossSousa),
    SourceRow(Toefl, 2, WordRun, GlossSousa),
    SourceRow(Duo30, 3, WordRun, GlossSousa),
    RunRows[1], RunRows[2], RunRows[3], RunRows[4]>>

InitRefeed ==
  \E table \in Tables(RefeedRows, MaxRefeedRows) : Blank("start", <<>>, <<>>, table)

\* POS_MANUAL_BATCH_SUMMARY.csv
FileSummary ==
  <<80, 79, 83, 95, 77, 65, 78, 85, 65, 76, 95, 66, 65, 84, 67, 72, 95,
    83, 85, 77, 77, 65, 82, 89, 46, 99, 115, 118>>

\* f"POS_MANUAL_BATCH_{batch_num:02d}.csv"
BatchFileName(batch_num) ==
  <<80, 79, 83, 95, 77, 65, 78, 85, 65, 76, 95, 66, 65, 84, 67, 72, 95>>
    \o ZFill(batch_num, 2) \o <<46, 99, 115, 118>>

\* a row of a written batch file as read_csv(dtype=str) returns it
CsvRow(row) ==
  [entry_id |-> row.entry_id,
   headword_norm |-> row.headword_norm,
   meaning_ja_short |-> row.meaning_ja_short,
   decision_pos |-> PosText(row.decision_pos),
   status |-> StatusText(row.status),
   decision_reason |-> row.decision_reason,
   reviewer |-> row.reviewer]

\* a row of the summary file: it has no entry_id column
SummaryRow == DecisionRow(0, <<>>, <<>>, <<>>)

\* manual_batches_root after write_manual_batches: the batch files and the
\* summary file, which the glob of the intake matches too
WrittenDirectory(files) ==
  [given |-> TRUE,
   files |->
     [b \in 1..Len(files) |->
        [name |-> BatchFileName(files[b].batch_seq),
         rows |-> [i \in 1..Len(files[b].rows) |-> CsvRow(files[b].rows[i])]]]
       \o <<[name |-> FileSummary, rows |-> [b \in 1..Len(files) |-> SummaryRow]]>>]

\* the next run of main on the same sources, with --manual-batches-dir set to
\* the directory that this run wrote
Refeed ==
  /\ pc = "done"
  /\ reapplied' = apply_manual_batch_decisions(wordbank_high_medium_quickwin_confirmed,
                                               WrittenDirectory(manual_batch_files))
  /\ pc' = "refed"
  /\ UNCHANGED <<callVars, tableVars, wordbank, pos_review, highVars, mediumVars,
                 queueVars, quickwinVars, pos_manual_queue_remaining, manualVars,
                 tailVars, pos_changes>>

NextRefeed ==
  \/ Aggregate
  \/ Triage
  \/ TriageRaises
  \/ ConfirmHigh
  \/ ConfirmMedium
  \/ BuildQueue
  \/ ApplyQuickwin
  \/ QueueRemaining
  \/ QueueRemainingRaises
  \/ ApplyManual
  \/ FinalQueue
  \/ Refeed

SpecRefeed == InitRefeed /\ [][NextRefeed]_vars

----------------------------------------------------------------------------
(* The whole run on a headword of the adverb lexicon *)

MaxLexiconRows == 6

\* rows of the refined master table for the headword well: glosses tagged as
\* noun and untagged glosses, which the classifier settles by the lexicon
LexiconRows ==
  <<SourceRow(Eiken5, 1, WordWell, GlossIdoNoun),
    SourceRow(Eiken5, 2, WordWell, GlossYoku),
    SourceRow(Duo30, 5, WordWell, GlossYoku),
    SourceRow(Toefl, 5, WordWell, GlossIdoNoun),
    SourceRow(Toefl, 6, WordWell, GlossIdoNoun),
    SourceRow(Duo30, 6, WordWell, GlossYoku),
    SourceRow(Duo30, 4, WordHappy, GlossShiawase)>>

InitLexicon ==
  \E table \in Tables(LexiconRows, MaxLexiconRows) : Blank("start", <<>>, <<>>, table)

SpecLexicon == InitLexicon /\ [][Next]_vars

----------------------------------------------------------------------------
(* The automated passes on one headword whose first gloss carries a hint *)

MaxHintVotes == 3
MaxCurrentVotes == 6

\* a refined master table of one headword: the rows of the suru-verb gloss
\* from a stage 1 book, the first of which represents the entry, then the
\* rows of a noun gloss
HintTable(hints, gloss, book, currents) ==
  [i \in 1..hints |-> SourceRow(Eiken5, i, WordHappy, GlossBenkyouSuru)]
    \o [i \in 1..currents |-> SourceRow(book, hints + i, WordHappy, gloss)]

InitQuickwin ==
  \E hints \in 0..MaxHintVotes, gloss \in PrimaryGlosses, book \in {Eiken5, Toefl},
     currents \in 0..MaxCurrentVotes :
    Blank("start", <<>>, <<>>, HintTable(hints, gloss, book, currents))

NextQuickwin ==
  \/ Aggregate
  \/ Triage
  \/ TriageRaises
  \/ ConfirmHigh
  \/ ConfirmMedium
  \/ BuildQueue
  \/ ApplyQuickwin

SpecQuickwin == InitQuickwin /\ [][NextQuickwin]_vars
----------------------------------------------------------------------------
(* Properties of the manual batch intake *)

\* the rows of the batch files of a directory, each with its file and its
\* row index
ReadRows(dir) == ReadFiles(BatchFiles(dir))

\* the cells of a batch row as the intake compares them
CellPos(r) == Lower(clean_text(r.row.decision_pos))
CellStatus(r) == Lower(clean_text(r.row.status))

\* a batch row that passes the validation of the intake
Passes(r) ==
  /\ r.row.entry_id # 0
  /\ IsPosText(CellPos(r))
  /\ CellStatus(r) = <<>> \/ CellStatus(r) \in accepted_status

\* the place of a batch row: its file and its row index
PlaceOf(r) == <<r.batch_file, r.row_index>>

\* the directory with the decision POS of the rows at the given places erased
BlankRows(dir, places) ==
  [dir EXCEPT !.files =
     [f \in 1..Len(dir.files) |->
        [dir.files[f] EXCEPT !.rows =
           [i \in 1..Len(dir.files[f].rows) |->
              IF <<dir.files[f].name, i>> \in places
                THEN [dir.files[f].rows[i] EXCEPT !.decision_pos = <<>>]
                ELSE dir.files[f].rows[i]]]]]

\* the directory with one more row at the end of its f-th file
AppendRow(dir, f, row) ==
  [dir EXCEPT !.files[f].rows = Append(dir.files[f].rows, row)]

\* the directory listed in the opposite order
ReverseListing(dir) ==
  [dir EXCEPT !.files = [f \in 1..Len(dir.files) |-> dir.files[Len(dir.files) + 1 - f]]]

\* the entry ids carried by the rows of a set of batch rows
IdsOf(rows) == {r.row.entry_id : r \in rows}

\* the set of the members of a sequence
Members(s) == {s[i] : i \in 1..Len(s)}

\* the ignored log holds the row with the reason
Logged(r, reason) ==
  \E i \in 1..Len(pos_manual_ignored.rows) :
    /\ pos_manual_ignored.rows[i].batch_file = r.batch_file
    /\ pos_manual_ignored.rows[i].row_index = r.row_index
    /\ pos_manual_ignored.rows[i].entry_id = r.row.entry_id
    /\ pos_manual_ignored.rows[i].reason = reason

\* the applied log holds a record made from the row
Applied(r) ==
  \E i \in 1..Len(pos_manual_applied.rows) :
    /\ pos_manual_applied.rows[i].batch_file = r.batch_file
    /\ pos_manual_applied.rows[i].row_index = r.row_index

\* C1: applying the same batches to the wordbank that a first application
\* returned reports changed = FALSE for every applied record and returns
\* that wordbank unchanged.
ReapplyIsNoOp ==
  pc = "reapplied" =>
    /\ reapplied.wb = wordbank_final_confirmed
    /\ \A i \in 1..Len(reapplied.applied.rows) : ~reapplied.applied.rows[i].changed

\* C2: every change of an entry's primary POS, by any stage, leaves as its
\* secondary POS the primary POS that the entry had just before the change.
SecondaryIsPrecedingPrimary ==
  \A i \in 1..Len(pos_changes) : pos_changes[i].secondary = pos_changes[i].before

\* C3: a run on a non-empty aggregated wordbank never raises.
RunNeverRaises == pc = "raised" => IsEmpty(wordbank)

\* the rows of a directory that carry a decision for the entry id
DecisionRowsOf(dir, e) ==
  {r \in Members(ReadRows(dir)) : r.row.entry_id = e /\ CellPos(r) # <<>>}

\* C4, as the specification states it: among the decision rows that carry one entry id, the last
\* in (file name, row index) order alone decides: erasing the decision of
\* every other row of that id leaves the returned wordbank the same.
LastRowDecides ==
  pc = "applied" =>
    \A e \in IdsOf(Members(ReadRows(manual_batches_dir))) \ {0} :
      \A last \in DecisionRowsOf(manual_batches_dir, e) :
        (\A r \in DecisionRowsOf(manual_batches_dir, e) \ {last} :
           \/ StrLess(r.batch_file, last.batch_file)
           \/ r.batch_file = last.batch_file /\ r.row_index < last.row_index)
        => apply_manual_batch_decisions(
             wordbank,
             BlankRows(manual_batches_dir,
                       {PlaceOf(r) : r \in DecisionRowsOf(manual_batches_dir, e) \ {last}})).wb
             = wordbank_final_confirmed

\* the rows of a directory that pass the validation and carry the entry id
PassingRows(dir, e) == {r \in Members(ReadRows(dir)) : Passes(r) /\ r.row.entry_id = e}

\* the last of a non-empty set of batch rows in the order of their sort key
LastByKey(rows) ==
  CHOOSE last \in rows : \A r \in rows \ {last} : StrLess(SortKey(r), SortKey(last))

\* the records of the two logs that the second loop made for a source entry id
RecordsOfSource(e) ==
  {<<r.batch_file, r.row_index>> :
     r \in {x \in Members(pos_manual_applied.rows) : x.source_entry_id = e}}
  \cup
  {<<r.batch_file, r.row_index>> :
     r \in {x \in Members(pos_manual_ignored.rows) :
              x.entry_id = e
                /\ x.reason \notin {"invalid_decision_pos", "status_not_ready"}}}

\* C4, amended: for a non-empty wordbank, among the rows of one entry id that
\* pass the validation, the last in the order of the sort key (file path, "|",
\* row index on six digits) alone decides: it is the only row of that id with
\* a record of the second loop, erasing the decision of the others changes
\* neither the wordbank nor the applied log, and the order in which the
\* directory lists its files changes nothing.
LastValidRowDecides ==
  (pc = "applied" /\ ~IsEmpty(wordbank)) =>
    /\ \A e \in IdsOf(Members(ReadRows(manual_batches_dir))) \ {0} :
         PassingRows(manual_batches_dir, e) # {} =>
           /\ RecordsOfSource(e)
                = {PlaceOf(LastByKey(PassingRows(manual_batches_dir, e)))}
           /\ apply_manual_batch_decisions(
                wordbank,
                BlankRows(manual_batches_dir,
                          {PlaceOf(r) :
                             r \in PassingRows(manual_batches_dir, e)
                                     \ {LastByKey(PassingRows(manual_batches_dir, e))}})).wb
                = wordbank_final_confirmed
           /\ apply_manual_batch_decisions(
                wordbank,
                BlankRows(manual_batches_dir,
                          {PlaceOf(r) :
                             r \in PassingRows(manual_batches_dir, e)
                                     \ {LastByKey(PassingRows(manual_batches_dir, e))}})).applied
                = pos_manual_applied
    /\ apply_manual_batch_decisions(wordbank, ReverseListing(manual_batches_dir)).wb
         = wordbank_final_confirmed
    /\ apply_manual_batch_decisions(wordbank, ReverseListing(manual_batches_dir)).applied
         = pos_manual_applied

\* two rows of one entry id in two files pass the validation with different
\* decisions, and the decision applied changed the entry
WitnessLastValidRowDecides ==
  /\ pc = "applied"
  /\ \E e \in IdsOf(Members(ReadRows(manual_batches_dir))) \ {0} :
       /\ \E a \in PassingRows(manual_batches_dir, e), b \in PassingRows(manual_batches_dir, e) :
            a.batch_file # b.batch_file /\ CellPos(a) # CellPos(b)
       /\ \E i \in 1..Len(pos_manual_applied.rows) :
            /\ pos_manual_applied.rows[i].source_entry_id = e
            /\ pos_manual_applied.rows[i].changed

\* C5, as the specification states it: when the batches are applied to a wordbank with entries,
\* every row whose decision POS is not one of the seven categories is logged
\* as invalid_decision_pos, every row with a category and a non-empty status
\* outside the accepted set is logged as status_not_ready.
NonCanonicalRowsLogged ==
  (pc = "applied" /\ ~IsEmpty(wordbank)) =>
    \A r \in Members(ReadRows(manual_batches_dir)) :
      /\ ~IsPosText(CellPos(r)) => Logged(r, "invalid_decision_pos")
      /\ (IsPosText(CellPos(r))
            /\ CellStatus(r) # <<>> /\ CellStatus(r) \notin accepted_status)
           => Logged(r, "status_not_ready")

\* rows that the validation rejects: a status that is not ready, a decision
\* POS that is no category
MalformedRows == {DecisionRows[4], DecisionRows[5]}

\* C5, amended: for a non-empty wordbank, a row with an entry id and a
\* non-empty decision POS is logged as invalid_decision_pos when the POS is
\* no category, else as status_not_ready when its non-empty status is not
\* accepted; in both cases it has no applied record, and one more such row
\* at the end of a batch file changes neither the wordbank nor the applied
\* log.
MalformedRowsIgnored ==
  pc = "applied" =>
    /\ ~IsEmpty(wordbank) =>
         \A r \in Members(ReadRows(manual_batches_dir)) :
           (r.row.entry_id # 0 /\ CellPos(r) # <<>>) =>
             /\ ~IsPosText(CellPos(r)) =>
                  Logged(r, "invalid_decision_pos") /\ ~Applied(r)
             /\ (IsPosText(CellPos(r))
                   /\ CellStatus(r) # <<>> /\ CellStatus(r) \notin accepted_status)
                  => Logged(r, "status_not_ready") /\ ~Applied(r)
    /\ \A f \in 1..Len(manual_batches_dir.files), row \in MalformedRows :
         IsBatchFileName(manual_batches_dir.files[f].name) =>
           /\ apply_manual_batch_decisions(
                wordbank, AppendRow(manual_batches_dir, f, row)).wb
                = wordbank_final_confirmed
           /\ apply_manual_batch_decisions(
                wordbank, AppendRow(manual_batches_dir, f, row)).applied
                = pos_manual_applied

\* a batch holds a rejected row next to a decision that changed an entry
WitnessMalformedRowsIgnored ==
  /\ pc = "applied"
  /\ \E i \in 1..Len(pos_manual_ignored.rows) :
       pos_manual_ignored.rows[i].reason \in {"invalid_decision_pos", "status_not_ready"}
  /\ \E i \in 1..Len(pos_manual_applied.rows) : pos_manual_applied.rows[i].changed

----------------------------------------------------------------------------
(* Properties of the run *)

\* the entries triaged HIGH or MEDIUM whose confirmation record is unchanged
TriagedUnchanged ==
  {r.entry_id :
     r \in {x \in Members(pos_review.rows) :
              /\ x.review_priority \in {"HIGH", "MEDIUM"}
              /\ \E c \in Members(pos_high_confirmations.rows)
                            \cup Members(pos_medium_confirmations.rows) :
                   c.entry_id = x.entry_id /\ ~c.changed}}

\* the entries whose POS the quick-win pass changed
QuickwinChanged ==
  {c.entry_id : c \in {x \in Members(pos_changes) : x.stage = "quickwin"}}

\* the entries with a record in the applied log of the manual intake
ManuallyDecided == {r.entry_id : r \in Members(pos_manual_applied.rows)}

\* C6: at the end of a run the final remaining queue holds, once each,
\* exactly the entries triaged HIGH or MEDIUM with an unchanged confirmation
\* record, less those changed by the quick-win pass, less those with an
\* applied manual decision.
FinalQueueExact ==
  pc = "done" =>
    /\ {r.entry_id : r \in Members(pos_manual_queue_final_remaining.rows)}
         = (TriagedUnchanged \ QuickwinChanged) \ ManuallyDecided
    /\ \A i \in 1..Len(pos_manual_queue_final_remaining.rows) :
         \A j \in 1..Len(pos_manual_queue_final_remaining.rows) :
           i # j => pos_manual_queue_final_remaining.rows[i].entry_id
                      # pos_manual_queue_final_remaining.rows[j].entry_id

\* a finished run whose queue lost an entry to the quick-win pass and another
\* to a manual decision, and still holds one
WitnessFinalQueueExact ==
  /\ pc = "done"
  /\ pos_manual_queue_final_remaining.rows # <<>>
  /\ TriagedUnchanged \cap QuickwinChanged # {}
  /\ (TriagedUnchanged \ QuickwinChanged) \cap ManuallyDecided # {}

\* the confirmation log of an automated pass
LogOf(stage) ==
  CASE stage = "high" -> pos_high_confirmations
    [] stage = "medium" -> pos_medium_confirmations
    [] OTHER -> pos_quickwin_confirmations

\* C7: every POS change of an automated pass has exactly one record in the
\* log of that pass, with the entry id, the POS before and after, a method, a
\* reason and a confidence score.
AutomatedChangesLogged ==
  \A c \in {x \in Members(pos_changes) : x.stage \in {"high", "medium", "quickwin"}} :
    /\ Cardinality({j \in 1..Len(LogOf(c.stage).rows) :
                      LogOf(c.stage).rows[j].entry_id = c.entry_id}) = 1
    /\ \A r \in Members(LogOf(c.stage).rows) :
         r.entry_id = c.entry_id =>
           /\ r.current_pos = c.before
           /\ r.confirmed_pos = c.after
           /\ {"method", "reason", "confirmation_confidence"} \subseteq DOMAIN r

----------------------------------------------------------------------------
(* Properties of the classifier and of the aggregator *)

\* C8: infer_pos returns one of the seven POS with a confidence in 0..100;
\* it returns (other, 0) exactly for a headword that is empty once cleaned,
\* and every rule but the fallback (noun, 45, fallback_noun) gives a
\* confidence of at least 65.
InferPosTotal ==
  pc = "returned" =>
    /\ inferred.pos \in PosSet
    /\ inferred.conf \in 0..100
    /\ inferred.pos = "other" <=> clean_text(headword) = <<>>
    /\ inferred.pos = "other" <=> inferred.conf = 0
    /\ inferred.conf < 65 =>
         \/ inferred = Result("other", 0, "empty_word")
         \/ inferred = Result("noun", 45, "fallback_noun")
    /\ inferred.evidence = "fallback_noun" => inferred = Result("noun", 45, "fallback_noun")
    /\ (headword = WordHappy /\ meaning = <<>>) =>
         inferred = Result("noun", 45, "fallback_noun")

\* the classifier fell through its rules on a headword with a gloss
WitnessInferPosTotal ==
  /\ pc = "returned"
  /\ headword # <<>>
  /\ meaning # <<>>
  /\ inferred = Result("noun", 45, "fallback_noun")

\* the fields of the entries that the ranking decides
RankedFields(wb) ==
  {[headword_norm |-> r.headword_norm,
    pos |-> r.pos,
    pos_secondary |-> r.pos_secondary,
    pos_vote_count |-> r.pos_vote_count,
    pos_candidates |-> r.pos_candidates,
    pos_score_primary |-> r.pos_score_primary,
    pos_score_secondary |-> r.pos_score_secondary] : r \in Members(wb.rows)}

\* the rows of the table as first given that share the normalized headword
GroupOf(key) == SelectSeq(BaseRows(refined_in), LAMBDA r : r.headword_norm = key)

\* POS p ranks before POS q among the candidates of an entry: by score, then
\* by votes, then by the canonical order of the POS
RanksBefore(row, p, q) ==
  \/ PosScore(GroupOf(row.headword_norm), p) > PosScore(GroupOf(row.headword_norm), q)
  \/ /\ PosScore(GroupOf(row.headword_norm), p) = PosScore(GroupOf(row.headword_norm), q)
     /\ CandidateCount(row.pos_candidates, p) > CandidateCount(row.pos_candidates, q)
  \/ /\ PosScore(GroupOf(row.headword_norm), p) = PosScore(GroupOf(row.headword_norm), q)
     /\ CandidateCount(row.pos_candidates, p) = CandidateCount(row.pos_candidates, q)
     /\ POS_ORDER_INDEX(p) < POS_ORDER_INDEX(q)

\* C9: the aggregation of a reordered table gives every headword the primary
\* POS, secondary POS, vote counts and scores of the table as first given,
\* the primary ranking before every other candidate and the secondary before
\* the rest by (score, votes, canonical POS order).
AggregationOrderIndependent ==
  pc = "grouped" =>
    /\ RankedFields(wordbank) = RankedFields(build_original_wordbank(refined_in))
    /\ \A row \in Members(wordbank.rows) :
         \A q \in {c.key : c \in Members(row.pos_candidates)} \ {row.pos} :
           /\ RanksBefore(row, row.pos, q)
           /\ q # row.pos_secondary => RanksBefore(row, row.pos_secondary, q)

\* a reordered table was aggregated and one of its headwords has two POS
\* that tie in score and in votes
WitnessAggregationOrderIndependent ==
  /\ pc = "grouped"
  /\ refined # refined_in
  /\ \E row \in Members(wordbank.rows) :
       /\ row.pos_secondary # ""
       /\ PosScore(GroupOf(row.headword_norm), row.pos)
            = PosScore(GroupOf(row.headword_norm), row.pos_secondary)
       /\ CandidateCount(row.pos_candidates, row.pos)
            = CandidateCount(row.pos_candidates, row.pos_secondary)

\* C10: of two rows for run, one glossed hashiru-koto from a book of a more
\* heavily weighted stage and one glossed hashiru from a book of a less
\* weighted stage, the votes tie 1-1 and the primary POS is the POS
\* classified for the row of the more heavily weighted stage.
HigherWeightedSourceWins ==
  pc = "grouped" =>
    \A i \in 1..Len(refined), j \in 1..Len(refined) :
      (/\ Len(refined) = 2
       /\ refined[i].word = WordRun /\ refined[i].meaning = GlossHashiruKoto
       /\ refined[j].word = WordRun /\ refined[j].meaning = GlossHashiru
       /\ STAGE_POS_WEIGHT(classify_stage_and_book_rank(clean_text(refined[i].book)).stage)
            > STAGE_POS_WEIGHT(classify_stage_and_book_rank(clean_text(refined[j].book)).stage))
      => /\ Len(wordbank.rows) = 1
         /\ \A c \in Members(wordbank.rows[1].pos_candidates) : c.count = 1
         /\ wordbank.rows[1].pos = infer_pos(refined[i].word, refined[i].meaning).pos

----------------------------------------------------------------------------
(* Properties of the classifier and of the aggregator, continued *)

\* glosses that carry no POS tag and no marker of the cascade
PlainGlosses == {<<>>, GlossSousa}

\* C11: infer_pos on the headword happy with a gloss that matches no
\* explicit-tag, lexicon or gloss-marker rule returns (adjective, 74) through
\* the adjective-suffix rule.
HappyIsAdjectiveBySuffix ==
  (pc = "returned" /\ headword = WordHappy /\ meaning \in PlainGlosses) =>
    inferred = Result("adjective", 74, "adjective_suffix")

\* the source rows that contribute to a normalized headword
Contributing(key) == SelectSeq(BaseRows(refined), LAMBDA r : r.headword_norm = key)

\* the votes of an entry, summed over its POS
VoteSum(row) == SumSeq([i \in 1..Len(row.pos_candidates) |-> row.pos_candidates[i].count])

\* C12: for every merged entry the votes over all POS sum to the number of
\* source rows contributing to its normalized headword, the vote count of the
\* entry is that of its primary POS, and the weighted score of the primary
\* POS is at least that of the secondary POS and of every other voted POS.
VotesSumAndPrimaryLeads ==
  pc = "grouped" =>
    \A row \in Members(wordbank.rows) :
      /\ VoteSum(row) = Len(Contributing(row.headword_norm))
      /\ row.pos_vote_count = CandidateCount(row.pos_candidates, row.pos)
      /\ row.pos_score_primary >= row.pos_score_secondary
      /\ \A c \in Members(row.pos_candidates) :
           PosScore(Contributing(row.headword_norm), row.pos)
             >= PosScore(Contributing(row.headword_norm), c.key)

\* an entry merged from three source rows whose votes split two to one
WitnessVotesSumAndPrimaryLeads ==
  /\ pc = "grouped"
  /\ \E row \in Members(wordbank.rows) :
       /\ Len(Contributing(row.headword_norm)) = 3
       /\ Len(row.pos_candidates) = 2
       /\ row.pos_vote_count = 2

\* C13, as the specification states it: the margin of every merged entry is
\* its primary score minus its secondary score, and it is 0 for an entry that
\* has no secondary POS.
MarginZeroWithoutSecondary ==
  pc = "grouped" =>
    \A row \in Members(wordbank.rows) :
      /\ row.pos_score_margin = row.pos_score_primary - row.pos_score_secondary
      /\ row.pos_secondary = "" => row.pos_score_margin = 0

\* the unrounded margin of an entry, in units of 1/10000: the score of the
\* primary POS less the score of the secondary POS, 0 standing for the score
\* of a secondary POS that does not exist
ExactMargin(row) ==
  PosScore(Contributing(row.headword_norm), row.pos)
    - (IF row.pos_secondary # ""
         THEN PosScore(Contributing(row.headword_norm), row.pos_secondary)
         ELSE 0)

\* C13, amended: the margin of every merged entry is the primary score minus
\* the secondary score, rounded to two decimals, the secondary score being 0
\* for an entry that has no secondary POS: the margin of such an entry is its
\* primary score.
MarginIsPrimaryLessSecondary ==
  pc = "grouped" =>
    \A row \in Members(wordbank.rows) :
      /\ 2 * (100 * row.pos_score_margin - ExactMargin(row)) <= 100
      /\ 2 * (ExactMargin(row) - 100 * row.pos_score_margin) <= 100
      /\ row.pos_secondary = "" =>
           /\ row.pos_score_secondary = 0
           /\ row.pos_score_margin = row.pos_score_primary
           /\ row.pos_score_margin > 0

\* a wordbank with an entry whose votes all agree next to an entry with a
\* secondary POS
WitnessMarginIsPrimaryLessSecondary ==
  /\ pc = "grouped"
  /\ \E row \in Members(wordbank.rows) : row.pos_secondary = ""
  /\ \E row \in Members(wordbank.rows) :
       row.pos_secondary # "" /\ row.pos_score_margin > 0

----------------------------------------------------------------------------
(* Properties of the checkpoints of the run *)

\* the positions of the run after each confirmation stage
AfterHigh ==
  {"high_confirmed", "medium_confirmed", "queued", "quickwin_applied", "remaining",
   "manual_applied", "done"}
AfterMedium == AfterHigh \ {"high_confirmed"}
AfterQuickwin == {"quickwin_applied", "remaining", "manual_applied", "done"}
AfterManual == {"manual_applied", "done"}

\* the checkpoints that the run has written so far
Checkpoints ==
  {wordbank}
    \cup (IF pc \in AfterHigh THEN {wordbank_high_confirmed} ELSE {})
    \cup (IF pc \in AfterMedium THEN {wordbank_high_medium_confirmed} ELSE {})
    \cup (IF pc \in AfterQuickwin THEN {wordbank_high_medium_quickwin_confirmed} ELSE {})
    \cup (IF pc \in AfterManual THEN {wordbank_final_confirmed} ELSE {})
    \cup ({wordbank_high_confirmed, wordbank_high_medium_confirmed,
           wordbank_high_medium_quickwin_confirmed, wordbank_final_confirmed}
            \ {NoFrame})

\* C14: at every checkpoint every entry has one primary POS among the seven
\* categories, a secondary POS that differs from it and is empty only if all
\* the source votes of the entry agree, and is_multi_pos exactly when the
\* secondary POS is not empty.
OnePrimaryPosAtCheckpoints ==
  \A wb \in Checkpoints :
    \A row \in Members(wb.rows) :
      /\ row.pos \in PosSet
      /\ row.pos_secondary \in PosSet \cup {""}
      /\ row.pos_secondary # row.pos
      /\ row.pos_secondary = "" => Len(row.pos_candidates) = 1
      /\ row.is_multi_pos <=> row.pos_secondary # ""

\* a finished run in which an entry whose source votes all agree was changed
\* by a stage, and the manual intake changed an entry
WitnessOnePrimaryPosAtCheckpoints ==
  /\ pc = "done"
  /\ \E c \in Members(pos_changes) : c.stage = "manual"
  /\ \E row \in Members(wordbank_final_confirmed.rows) :
       Len(row.pos_candidates) = 1 /\ row.pos_secondary # ""

\* an entry without the fields that a confirmation stage may write
Frozen(row) ==
  [row EXCEPT !.pos = "", !.pos_label_ja = <<>>, !.pos_secondary = "",
              !.is_multi_pos = FALSE, !.pos_evidence = "", !.pos_confidence = 0,
              !.group_order = 0, !.group_id = <<>>, !.group_label = <<>>]

\* the entry ids whose POS a stage changed
ChangedBy(stage) == {c.entry_id : c \in {x \in Members(pos_changes) : x.stage = stage}}

\* the entry ids of a wordbank frame
EntryIds(wb) == {r.entry_id : r \in Members(wb.rows)}

\* a stage that took the frame before to the frame after kept the entries
KeepsEntries(before, after, stage) ==
  /\ EntryIds(after) = EntryIds(before)
  /\ Len(after.rows) = Len(before.rows)
  /\ \A i \in 1..Len(after.rows), j \in 1..Len(after.rows) :
       i # j => /\ after.rows[i].entry_id # after.rows[j].entry_id
                /\ after.rows[i].headword_norm # after.rows[j].headword_norm
  /\ \A e \in EntryIds(before) :
       /\ Frozen(EntryOf(after, e)) = Frozen(EntryOf(before, e))
       /\ e \notin ChangedBy(stage) => EntryOf(after, e) = EntryOf(before, e)

\* C15: no confirmation stage adds, deletes or renumbers entries: the
\* checkpoint after a stage holds the entry ids of the checkpoint before it,
\* ids and normalized headwords are unique, a stage changes no field of an
\* entry but pos, pos_label_ja, pos_secondary, is_multi_pos, pos_evidence,
\* pos_confidence and the group key fields, and it returns unchanged every
\* entry whose POS it did not change.
StagesKeepEntries ==
  /\ (pc \in AfterHigh \/ wordbank_high_confirmed # NoFrame) =>
       KeepsEntries(wordbank, wordbank_high_confirmed, "high")
  /\ (pc \in AfterMedium \/ wordbank_high_medium_confirmed # NoFrame) =>
       KeepsEntries(wordbank_high_confirmed, wordbank_high_medium_confirmed, "medium")
  /\ (pc \in AfterQuickwin \/ wordbank_high_medium_quickwin_confirmed # NoFrame) =>
       KeepsEntries(wordbank_high_medium_confirmed,
                    wordbank_high_medium_quickwin_confirmed, "quickwin")
  /\ (pc \in AfterManual \/ wordbank_final_confirmed # NoFrame) =>
       KeepsEntries(wordbank_high_medium_quickwin_confirmed,
                    wordbank_final_confirmed, "manual")

\* a finished run on three entries or more in which an automated stage and
\* the manual intake each changed an entry and left another alone
WitnessStagesKeepEntries ==
  /\ pc = "done"
  /\ Len(wordbank.rows) >= 3
  /\ ChangedBy("manual") # {}
  /\ ChangedBy("high") \cup ChangedBy("medium") \cup ChangedBy("quickwin") # {}
  /\ wordbank_final_confirmed # wordbank


----------------------------------------------------------------------------
(* Prefill *)

\* the POS with the most votes of a queue row is pos (the first one among
\* equals)
TopVoteIs(row, pos) ==
  \E i \in 1..Len(row.pos_candidates) :
    /\ row.pos_candidates[i].key = pos
    /\ \A j \in 1..Len(row.pos_candidates) :
         row.pos_candidates[j].count <= row.pos_candidates[i].count
    /\ \A j \in 1..(i - 1) :
         row.pos_candidates[j].count < row.pos_candidates[i].count

RuleNonFallback(row) ==
  row.pos_evidence # "fallback_noun" /\ TopVoteIs(row, row.pos_current)
RuleHintMatch(row) ==
  row.jp_hint_pos = row.pos_current /\ TopVoteIs(row, row.pos_current)
RuleNounMargin(row) ==
  /\ row.pos_current = "noun"
  /\ row.pos_evidence = "fallback_noun"
  /\ row.source_count >= 1
  /\ row.pos_score_margin >= 100

FirstRule(row) ==
  IF RuleNonFallback(row) THEN "keep_current_non_fallback"
  ELSE IF RuleHintMatch(row) THEN "keep_current_jp_hint_match"
  ELSE IF RuleNounMargin(row) THEN "keep_current_noun_margin1_sources1"
  ELSE ""

DecisionColumns == {"decision_pos", "decision_reason", "reviewer", "status"}

\* the prefilled row q of a queue row r that had no decision
Suggested(r, q) ==
  /\ \A f \in (DOMAIN r) \ DecisionColumns : q[f] = r[f]
  /\ q.prefill_rule = FirstRule(r)
  /\ IF FirstRule(r) # ""
       THEN q.decision_pos = r.pos_current /\ q.is_prefilled
       ELSE q.decision_pos = "" /\ ~q.is_prefilled

\* C16: prefill leaves every wordbank as it is, keeps every row of the queue,
\* fills the decision POS of a row that had none with the row's current POS
\* exactly when one of the three rules matches, names the first rule that
\* matches, and leaves the decision empty when none does
PrefillOnlySuggests ==
  [][Prefill =>
       /\ UNCHANGED <<wordbank, wordbank_high_confirmed, wordbank_high_medium_confirmed,
                      wordbank_high_medium_quickwin_confirmed,
                      wordbank_final_confirmed>>
       /\ Len(pos_manual_queue_final_prefilled'.rows)
            = Len(pos_manual_queue_final_remaining.rows)
       /\ \A i \in 1..Len(pos_manual_queue_final_remaining.rows) :
            pos_manual_queue_final_remaining.rows[i].decision_pos = ""
              => Suggested(pos_manual_queue_final_remaining.rows[i],
                           pos_manual_queue_final_prefilled'.rows[i])]_vars

\* a prefilled queue in which each of the three rules has filled a row, one
\* of them for a row whose top vote is not its current POS, and one row is
\* left empty, the wordbank still holding the entries
WitnessPrefillOnlySuggests ==
  /\ pc = "prefilled"
  /\ \A rule \in {"keep_current_non_fallback", "keep_current_jp_hint_match",
                  "keep_current_noun_margin1_sources1", ""} :
       \E i \in 1..Len(pos_manual_queue_final_prefilled.rows) :
         pos_manual_queue_final_prefilled.rows[i].prefill_rule = rule
  /\ \E i \in 1..Len(pos_manual_queue_final_prefilled.rows) :
       LET q == pos_manual_queue_final_prefilled.rows[i]
       IN  /\ q.decision_pos = q.pos_current
           /\ ~TopVoteIs(q, q.pos_current)
           /\ \E j \in 1..Len(wordbank_final_confirmed.rows) :
                /\ wordbank_final_confirmed.rows[j].entry_id = q.entry_id
                /\ wordbank_final_confirmed.rows[j].pos = q.pos_current

----------------------------------------------------------------------------
(* Batching *)

RECURSIVE BatchedRows(_)
\* the rows of the batch files, one file after the other
BatchedRows(files) ==
  IF files = <<>> THEN <<>> ELSE Head(files).rows \o BatchedRows(Tail(files))

PriorityRank(p) == IF p = "HIGH" THEN 0 ELSE IF p = "MEDIUM" THEN 1 ELSE 9

\* row a does not come after row b in the order of the batches
InBatchOrder(a, b) ==
  LET ka == <<PriorityRank(a.review_priority), 0 - a.review_score, a.stage,
              0 - a.source_count>>
      kb == <<PriorityRank(b.review_priority), 0 - b.review_score, b.stage,
              0 - b.source_count>>
  IN  \/ \E k \in 1..4 : ka[k] < kb[k] /\ \A j \in 1..(k - 1) : ka[j] = kb[j]
      \/ ka = kb /\ ~StrLess(b.headword_norm, a.headword_norm)

\* the batch files hold every row of the prefilled queue once, in the order
\* of the batches, the files one after the other
BatchesHoldQueueInOrder ==
  LET rows == BatchedRows(manual_batch_files)
      queue == pos_manual_queue_final_prefilled.rows
  IN  /\ Len(rows) = Len(queue)
      /\ \A i \in 1..Len(queue) :
           \E j \in 1..Len(rows) :
             /\ rows[j].entry_id = queue[i].entry_id
             /\ \A f \in DOMAIN queue[i] : rows[j][f] = queue[i][f]
      /\ \A i \in 1..Len(rows) : rows[i].global_rank = i
      /\ \A i \in 1..(Len(rows) - 1) : InBatchOrder(rows[i], rows[i + 1])

\* C17, as the specification states it: the batches hold the sorted residual,
\* and a residual of at least N entries is cut into exactly N batches whose
\* sizes differ by at most one
BatchesCutInN ==
  pc = "batched" =>
    /\ BatchesHoldQueueInOrder
    /\ Len(pos_manual_queue_final_prefilled.rows) >= manual_batch_count =>
         /\ Len(manual_batch_files) = manual_batch_count
         /\ \A a, b \in 1..Len(manual_batch_files) :
              Len(manual_batch_files[a].rows) - Len(manual_batch_files[b].rows) <= 1


----------------------------------------------------------------------------
(* Triage *)

\* the points of the six rules for a wordbank entry
TriagePoints(w) ==
  <<IF w.pos_confidence < 60 THEN 5 ELSE IF w.pos_confidence < 70 THEN 3 ELSE 0,
    IF w.is_multi_pos THEN 3 ELSE 0,
    IF w.pos_score_margin < 1500 THEN 4 ELSE IF w.pos_score_margin < 3500 THEN 2 ELSE 0,
    IF w.pos_evidence \in {"fallback_noun", "verb_suffix"} THEN 2 ELSE 0,
    IF w.source_count >= 5 /\ w.is_multi_pos THEN 1 ELSE 0,
    IF w.stage >= 4 THEN 1 ELSE 0>>

TriageScore(w) ==
  TriagePoints(w)[1] + TriagePoints(w)[2] + TriagePoints(w)[3]
    + TriagePoints(w)[4] + TriagePoints(w)[5] + TriagePoints(w)[6]

\* the rows of the review set for an entry id
ReviewRowsOf(entry_id) ==
  {i \in 1..Len(pos_review.rows) : pos_review.rows[i].entry_id = entry_id}

\* C18: after triage every entry of the wordbank is in the review set exactly
\* when its score is at least 5, it is multi-POS or its confidence is below
\* 70, and then once; its review score is the sum of the points of the rules,
\* its priority HIGH from 8, MEDIUM from 5 to 7 and LOW below; an emitted LOW
\* entry is multi-POS or has a confidence of 60 to 69; the review set holds
\* no other row
TriageScoresAndEmits ==
  pc = "triaged" =>
    /\ \A i \in 1..Len(wordbank.rows) :
         LET w == wordbank.rows[i]
             score == TriageScore(w)
             rows == ReviewRowsOf(w.entry_id)
         IN  /\ rows # {} <=> (score >= 5 \/ w.is_multi_pos \/ w.pos_confidence < 70)
             /\ Cardinality(rows) <= 1
             /\ score >= 5 => rows # {}
             /\ \A j \in rows :
                  LET r == pos_review.rows[j]
                  IN  /\ r.review_score = score
                      /\ r.review_priority = "HIGH" <=> score >= 8
                      /\ r.review_priority = "MEDIUM" <=> (5 <= score /\ score < 8)
                      /\ r.review_priority = "LOW" <=> score < 5
                      /\ r.review_priority = "LOW" =>
                           w.is_multi_pos \/ w.pos_confidence \in 60..69
    /\ \A j \in 1..Len(pos_review.rows) :
         \E i \in 1..Len(wordbank.rows) :
           wordbank.rows[i].entry_id = pos_review.rows[j].entry_id

\* a triaged wordbank with an emitted LOW entry of confidence 65 that is not
\* multi-POS, beside a HIGH entry
WitnessTriageScoresAndEmits ==
  /\ pc = "triaged"
  /\ \E i, j \in 1..Len(pos_review.rows) :
       /\ pos_review.rows[i].review_priority = "LOW"
       /\ ~pos_review.rows[i].is_multi_pos
       /\ pos_review.rows[i].pos_confidence = 65
       /\ pos_review.rows[i].review_score = 3
       /\ pos_review.rows[j].review_priority = "HIGH"
       /\ pos_review.rows[j].review_score = 16

----------------------------------------------------------------------------
(* Override rules of the confirmation passes *)

\* the votes of a POS among the candidates of a wordbank row
VotesFor(w, pos) ==
  LET at == {i \in 1..Len(w.pos_candidates) : w.pos_candidates[i].key = pos}
  IN  IF at = {} THEN 0 ELSE w.pos_candidates[CHOOSE i \in at : TRUE].count

\* the vote condition of rule 3 for a marker POS: count >= 3 and
\* count >= 0.8 x primary, for a verb count >= 0.7 x primary
MarkerVotesPass(w, marker_pos) ==
  LET primary == VotesFor(w, w.pos)
      secondary == VotesFor(w, w.pos_secondary)
  IN  /\ w.pos_secondary # ""
      /\ marker_pos = w.pos_secondary
      /\ secondary >= 3
      /\ \/ 10 * secondary >= 8 * primary
         \/ marker_pos = "verb" /\ 10 * secondary >= 7 * primary

\* one of rules 1 to 3 applies to the wordbank row
EarlierRuleApplies(w) ==
  \/ w.headword_norm \in ADVERB_HEADWORDS /\ w.pos # "adverb"
  \/ w.headword_norm \in ADJECTIVE_HEADWORDS /\ w.pos # "adjective"
  \/ LET marker_pos == infer_pos_from_meaning_markers(w.meaning_ja_short)
     IN  marker_pos # "" /\ marker_pos # w.pos /\ MarkerVotesPass(w, marker_pos)

\* rule 4 applies to the wordbank row
SecondaryVotesPass(w) ==
  /\ w.pos = "noun"
  /\ w.pos_evidence = "fallback_noun"
  /\ w.pos_secondary # ""
  /\ w.pos_secondary # w.pos
  /\ VotesFor(w, w.pos_secondary) >= 4
  /\ VotesFor(w, w.pos_secondary) >= 3
  /\ 10 * VotesFor(w, w.pos_secondary) >= 6 * VotesFor(w, w.pos)

\* every candidate of a pass to which rule 4 and none of rules 1 to 3
\* applies is overridden to its secondary POS
OverriddenBySecondaryVotes(before, confirmations, after) ==
  \A i \in 1..Len(confirmations.rows) :
    LET c == confirmations.rows[i]
        w == EntryOf(before, c.entry_id)
    IN  SecondaryVotesPass(w) /\ ~EarlierRuleApplies(w) =>
          /\ c.changed
          /\ c.method = "secondary_vote_override"
          /\ c.confirmed_pos = w.pos_secondary
          /\ EntryOf(after, c.entry_id).pos = w.pos_secondary

\* C19, as the specification states it: in both passes a noun by
\* fallback_noun whose secondary POS has at least 4 votes and at least 0.6 x
\* the primary votes is overridden to the secondary POS when none of rules 1
\* to 3 applies
SecondaryVoteOverrides ==
  /\ pc = "high_confirmed" =>
       OverriddenBySecondaryVotes(wordbank, pos_high_confirmations,
                                  wordbank_high_confirmed)
  /\ pc = "medium_confirmed" =>
       OverriddenBySecondaryVotes(wordbank_high_confirmed, pos_medium_confirmations,
                                  wordbank_high_medium_confirmed)

\* every entry changed by the marker override of a pass has the votes of
\* rule 3
MarkerOverridesHaveVotes(before, confirmations) ==
  \A i \in 1..Len(confirmations.rows) :
    LET c == confirmations.rows[i]
    IN  c.changed /\ c.method = "meaning_marker_override" =>
          MarkerVotesPass(EntryOf(before, c.entry_id), c.confirmed_pos)

\* C20, as the specification states it: in both passes the marker POS of an
\* entry changed by the marker override is the secondary POS with at least 3
\* votes and at least 0.8 x the primary votes, or verb with at least 3 votes
\* and at least 0.7 x the primary votes
MarkerOverrideSatisfiesVotes ==
  /\ pc = "high_confirmed" =>
       MarkerOverridesHaveVotes(wordbank, pos_high_confirmations)
  /\ pc = "medium_confirmed" =>
       MarkerOverridesHaveVotes(wordbank_high_confirmed, pos_medium_confirmations)

----------------------------------------------------------------------------
(* The automated passes *)

AutomatedStages == {"high", "medium", "quickwin"}

\* the entry ids that triage gave the priority
Triaged(priority) ==
  {r.entry_id : r \in {x \in Members(pos_review.rows) : x.review_priority = priority}}

\* the entry ids with a record of a confirmation log
RecordedIn(confirmations) == {c.entry_id : c \in Members(confirmations.rows)}

\* the entry ids with a record of the HIGH or MEDIUM log that says changed or
\* unchanged
Recorded(changed) ==
  {c.entry_id : c \in {x \in Members(pos_high_confirmations.rows)
                              \cup Members(pos_medium_confirmations.rows) :
                         x.changed = changed}}

\* C21: no entry has its POS changed by more than one automated pass; the
\* HIGH pass records and changes only entries triaged HIGH, the MEDIUM pass
\* only entries triaged MEDIUM, no entry is triaged both; the quick-win pass
\* changes only entries whose HIGH or MEDIUM record says unchanged; entries
\* triaged LOW or not emitted are changed by no automated pass
OnePassPerEntry ==
  /\ \A s, t \in AutomatedStages : s # t => ChangedBy(s) \cap ChangedBy(t) = {}
  /\ RecordedIn(pos_high_confirmations) \subseteq Triaged("HIGH")
  /\ RecordedIn(pos_medium_confirmations) \subseteq Triaged("MEDIUM")
  /\ ChangedBy("high") \subseteq Triaged("HIGH")
  /\ ChangedBy("medium") \subseteq Triaged("MEDIUM")
  /\ Triaged("HIGH") \cap Triaged("MEDIUM") = {}
  /\ ChangedBy("quickwin") \subseteq Recorded(FALSE) \ Recorded(TRUE)
  /\ \A s \in AutomatedStages :
       ChangedBy(s) \cap (Triaged("LOW") \cup (EntryIds(wordbank) \ RecordedIn(pos_review)))
         = {}

\* a run past the quick-win pass in which the HIGH pass has changed one
\* entry and the quick-win pass another, whose record says unchanged
WitnessOnePassPerEntry ==
  /\ pc \in AfterQuickwin
  /\ ChangedBy("high") # {}
  /\ ChangedBy("quickwin") # {}
  /\ ChangedBy("quickwin") \cap Recorded(FALSE) # {}

\* the place of a POS in the canonical order, from 1
CanonicalIndex(pos) == CHOOSE i \in 1..Len(POS_ORDER) : POS_ORDER[i] = pos

\* the record of a confirmation log that changed the entry
ChangeRecord(confirmations, entry_id) ==
  CHOOSE c \in Members(confirmations.rows) : c.entry_id = entry_id /\ c.changed

\* the entries changed by a HIGH or MEDIUM pass carry its evidence tag and
\* the larger of the old confidence and the confirmation confidence
TaggedByPass(stage, prefix, before, confirmations, after) ==
  \A e \in ChangedBy(stage) :
    /\ \E c \in Members(confirmations.rows) : c.entry_id = e /\ c.changed
    /\ EntryOf(after, e).pos_evidence
         = prefix \o ":" \o ChangeRecord(confirmations, e).method
    /\ EntryOf(after, e).pos_confidence
         = Max(EntryOf(before, e).pos_confidence,
               ChangeRecord(confirmations, e).confirmation_confidence)

\* C22: at every checkpoint group_order, group_id and pos_label_ja of every
\* entry are those of its primary POS, its stage and the first letter of its
\* normalized headword; an entry changed by the HIGH or MEDIUM pass has the
\* evidence tag <prefix>:<method> and the confidence max(old confidence,
\* confirmation confidence x 100)
DerivedFieldsFollowPos ==
  /\ \A wb \in Checkpoints :
       \A row \in Members(wb.rows) :
         /\ row.group_order = CanonicalIndex(row.pos)
         /\ row.group_id
              = <<row.stage, row.pos, UpperLetter(first_alpha(row.headword_norm))>>
         /\ row.pos_label_ja = POS_LABEL_JA(row.pos)
  /\ TaggedByPass("high", "high_confirm", wordbank, pos_high_confirmations,
                  wordbank_high_confirmed)
  /\ TaggedByPass("medium", "medium_confirm", wordbank_high_confirmed,
                  pos_medium_confirmations, wordbank_high_medium_confirmed)

\* a finished run in which the HIGH pass, the quick-win pass and the manual
\* intake have each changed the POS of an entry
WitnessDerivedFieldsFollowPos ==
  /\ pc = "done"
  /\ ChangedBy("high") # {}
  /\ ChangedBy("quickwin") # {}
  /\ ChangedBy("manual") # {}

----------------------------------------------------------------------------
(* Entry resolution of the manual intake *)

\* the headword and the gloss that a batch row carries
CellHeadword(r) == clean_text(r.row.headword_norm)
CellGloss(r) == clean_text(r.row.meaning_ja_short)

\* the batch row that a record of the applied or the ignored log was made from
RowOfRecord(rec) ==
  CHOOSE r \in Members(ReadRows(manual_batches_dir)) :
    PlaceOf(r) = <<rec.batch_file, rec.row_index>>

\* the batch rows that reach the entry resolution: they pass the validation
\* and are the last of their entry id, and the wordbank is not empty
ReachResolution ==
  {r \in Members(ReadRows(manual_batches_dir)) :
     /\ ~IsEmpty(wordbank)
     /\ Passes(r)
     /\ r = LastByKey(PassingRows(manual_batches_dir, r.row.entry_id))}

\* the entries of the aggregated wordbank with the headword, and with the
\* headword and the gloss
EntriesNamed(hw) ==
  {row.entry_id : row \in {x \in Members(wordbank.rows) : x.headword_norm = hw}}
EntriesGlossed(hw, gloss) ==
  {row.entry_id : row \in {x \in Members(wordbank.rows) :
                             x.headword_norm = hw /\ x.meaning_ja_short = gloss}}

\* the unique entry matching (headword, gloss) of a batch row, or else the
\* unique entry matching its headword; 0 when there is none
UniqueMatch(r) ==
  IF CellGloss(r) # <<>> /\ Cardinality(EntriesGlossed(CellHeadword(r), CellGloss(r))) = 1
    THEN CHOOSE e \in EntriesGlossed(CellHeadword(r), CellGloss(r)) : TRUE
  ELSE IF Cardinality(EntriesNamed(CellHeadword(r))) = 1
    THEN CHOOSE e \in EntriesNamed(CellHeadword(r)) : TRUE
  ELSE 0

\* the id of a batch row names no entry, or an entry with another headword
IdMisses(r) ==
  \/ ~HasEntry(wordbank, r.row.entry_id)
  \/ EntryOf(wordbank, r.row.entry_id).headword_norm # CellHeadword(r)

\* the ignored log holds the row with some reason
LoggedWithReason(r) ==
  \E g \in Members(pos_manual_ignored.rows) :
    /\ PlaceOf(g) = PlaceOf(r)
    /\ g.reason # ""

\* the entries whose POS the intake changed
ManuallyChanged ==
  {row.entry_id : row \in {x \in Members(wordbank.rows) :
                             EntryOf(wordbank_final_confirmed, x.entry_id).pos # x.pos}}

\* C23: every applied record of a batch row with a headword names an entry
\* with that headword; a row that reaches the entry resolution with a
\* headword and an id that names no entry, or an entry with another
\* headword, is applied to the unique entry matching (headword, gloss) or
\* else the unique entry matching the headword, and otherwise it is in the
\* ignored log with a reason and has no applied record; only entries named
\* by an applied record change.
ManualResolutionSafe ==
  pc = "applied" =>
    /\ \A a \in Members(pos_manual_applied.rows) :
         /\ HasEntry(wordbank, a.entry_id)
         /\ CellHeadword(RowOfRecord(a)) # <<>> =>
              EntryOf(wordbank, a.entry_id).headword_norm = CellHeadword(RowOfRecord(a))
    /\ \A r \in ReachResolution :
         (CellHeadword(r) # <<>> /\ IdMisses(r)) =>
           IF UniqueMatch(r) # 0
             THEN \E a \in Members(pos_manual_applied.rows) :
                    /\ PlaceOf(a) = PlaceOf(r)
                    /\ a.entry_id = UniqueMatch(r)
             ELSE LoggedWithReason(r) /\ ~Applied(r)
    /\ ManuallyChanged \subseteq ManuallyDecided
    /\ EntryIds(wordbank_final_confirmed) = EntryIds(wordbank)

\* a row with a stale id was applied to the entry of its headword, and a row
\* whose headword no entry has was ignored, in one application
WitnessManualResolutionSafe ==
  /\ pc = "applied"
  /\ \E a \in Members(pos_manual_applied.rows) :
       /\ a.source_entry_id # a.entry_id
       /\ a.changed
       /\ CellHeadword(RowOfRecord(a)) # <<>>
  /\ \E r \in ReachResolution :
       /\ CellHeadword(r) # <<>>
       /\ IdMisses(r)
       /\ UniqueMatch(r) = 0
       /\ LoggedWithReason(r)

----------------------------------------------------------------------------
(* The written batch files fed back unedited *)

\* the rows of the written batch files, each with its file and its row index
WrittenRows == Members(ReadRows(WrittenDirectory(manual_batch_files)))

\* the queue row that a row of a written batch file was written from
QueueRowOf(r) ==
  CHOOSE q \in Members(pos_manual_queue_final_prefilled.rows) :
    q.entry_id = r.row.entry_id

\* the rows of the written batch files that prefill filled in
PrefilledRows ==
  {r \in WrittenRows : r.row.entry_id # 0 /\ QueueRowOf(r).is_prefilled}

\* the record of the ignored log of the second intake for a row
RefeedIgnored(r) ==
  {g \in Members(reapplied.ignored.rows) : PlaceOf(g) = PlaceOf(r)}

\* C24: handing the batch files that a run wrote to the manual intake
\* without an edit changes no entry and applies nothing; every prefilled row
\* has the status todo_prefill and is in the ignored log as status_not_ready,
\* and every row without a decision POS has no record in any log.
PrefillNeverApplied ==
  pc = "refed" =>
    /\ reapplied.wb = wordbank_high_medium_quickwin_confirmed
    /\ reapplied.applied.rows = <<>>
    /\ reapplied.writes = <<>>
    /\ \A r \in PrefilledRows :
         /\ r.row.status = StatusText("todo_prefill")
         /\ \E g \in RefeedIgnored(r) : g.reason = "status_not_ready"
    /\ \A r \in WrittenRows :
         r.row.decision_pos = <<>> => RefeedIgnored(r) = {}
    /\ {q.entry_id : q \in Members(pos_manual_queue_final_prefilled.rows)}
         = {r.row.entry_id : r \in WrittenRows} \ {0}

\* written batch files with a prefilled row and a row without a suggestion
\* were fed back
WitnessPrefillNeverApplied ==
  /\ pc = "refed"
  /\ PrefilledRows # {}
  /\ \E r \in WrittenRows : r.row.entry_id # 0 /\ r.row.decision_pos = <<>>

----------------------------------------------------------------------------
(* Confidence over the checkpoints *)

\* no entry of the frame before has a lower confidence in the frame after
ConfidenceKept(before, after) ==
  \A e \in EntryIds(before) :
    EntryOf(after, e).pos_confidence >= EntryOf(before, e).pos_confidence

\* the entries whose POS the stage changed have at least the confidence floor
\* in the frame after the stage
ConfidenceFloor(stage, after, floor) ==
  \A e \in ChangedBy(stage) : EntryOf(after, e).pos_confidence >= floor

\* C25: the confidence of an entry never decreases from one checkpoint to
\* the next and lies in 0..100; an entry changed by the HIGH or the MEDIUM
\* pass has confidence >= 90 after it, one changed by the quick-win pass
\* >= 88, one changed by the manual intake >= 95.
ConfidenceNeverDrops ==
  /\ \A wb \in Checkpoints : \A row \in Members(wb.rows) : row.pos_confidence \in 0..100
  /\ pc \in AfterHigh =>
       /\ ConfidenceKept(wordbank, wordbank_high_confirmed)
       /\ ConfidenceFloor("high", wordbank_high_confirmed, 90)
  /\ pc \in AfterMedium =>
       /\ ConfidenceKept(wordbank_high_confirmed, wordbank_high_medium_confirmed)
       /\ ConfidenceFloor("medium", wordbank_high_medium_confirmed, 90)
  /\ pc \in AfterQuickwin =>
       /\ ConfidenceKept(wordbank_high_medium_confirmed,
                         wordbank_high_medium_quickwin_confirmed)
       /\ ConfidenceFloor("quickwin", wordbank_high_medium_quickwin_confirmed, 88)
  /\ pc \in AfterManual =>
       /\ ConfidenceKept(wordbank_high_medium_quickwin_confirmed, wordbank_final_confirmed)
       /\ ConfidenceFloor("manual", wordbank_final_confirmed, 95)

\* a finished run in which the quick-win pass changed an entry whose
\* confidence was above 88, a pass raised the confidence of an entry, and
\* the manual intake changed an entry
WitnessConfidenceNeverDrops ==
  /\ pc = "done"
  /\ \E e \in ChangedBy("quickwin") :
       EntryOf(wordbank_high_medium_confirmed, e).pos_confidence > 88
  /\ \E s \in {"high", "medium"} : \E e \in ChangedBy(s) :
       EntryOf(wordbank_high_medium_confirmed, e).pos_confidence
         > EntryOf(wordbank, e).pos_confidence
  /\ ChangedBy("manual") # {}

----------------------------------------------------------------------------
(* The final remaining queue *)

\* the stages that write the POS of an entry
Stages == {"high", "medium", "quickwin", "manual"}

\* C26: every entry of the final remaining queue was changed by no stage:
\* its POS at every checkpoint, the final one included, is the POS it had
\* after aggregation, and that is the pos_current of its row in the final
\* remaining queue and in the prefilled queue.
FinalQueueUntouched ==
  pc = "done" =>
    /\ \A q \in Members(pos_manual_queue_final_remaining.rows) :
         /\ \A s \in Stages : q.entry_id \notin ChangedBy(s)
         /\ HasEntry(wordbank, q.entry_id)
         /\ \A wb \in Checkpoints : EntryOf(wb, q.entry_id).pos = q.pos_current
         /\ EntryOf(wordbank_final_confirmed, q.entry_id) = EntryOf(wordbank, q.entry_id)
    /\ \A q \in Members(pos_manual_queue_final_prefilled.rows) :
         /\ EntryOf(wordbank_final_confirmed, q.entry_id).pos = q.pos_current
         /\ q.decision_pos \in {"", q.pos_current}

\* a finished run with an entry left in the final queue, while the quick-win
\* pass and the manual intake changed other entries
WitnessFinalQueueUntouched ==
  /\ pc = "done"
  /\ pos_manual_queue_final_remaining.rows # <<>>
  /\ ChangedBy("quickwin") # {}
  /\ ChangedBy("manual") # {}

----------------------------------------------------------------------------
(* The applied log of the manual intake *)

\* the places in the applied log of the records of an entry
RecordsOfEntry(e) ==
  {i \in 1..Len(pos_manual_applied.rows) : pos_manual_applied.rows[i].entry_id = e}

\* the last place of a non-empty set of places
LastPlace(places) == CHOOSE i \in places : \A j \in places : j <= i

\* the POS that the entry of the i-th applied record had when the record was
\* applied: the POS written by the last earlier record that changed the
\* entry, or the POS of the wordbank handed to the intake
PosWhenApplied(i) ==
  LET e == pos_manual_applied.rows[i].entry_id
      earlier == {j \in RecordsOfEntry(e) : j < i /\ pos_manual_applied.rows[j].changed}
  IN  IF earlier = {} THEN EntryOf(wordbank, e).pos
      ELSE pos_manual_applied.rows[LastPlace(earlier)].after_pos

\* C27: after the manual intake the POS of every entry with a record in the
\* applied log is the after_pos of its last record, and the before_pos of
\* every record is the POS that the entry had when the record was applied.
AppliedLogTellsThePos ==
  pc = "applied" =>
    /\ \A e \in ManuallyDecided :
         EntryOf(wordbank_final_confirmed, e).pos
           = pos_manual_applied.rows[LastPlace(RecordsOfEntry(e))].after_pos
    /\ \A i \in 1..Len(pos_manual_applied.rows) :
         pos_manual_applied.rows[i].before_pos = PosWhenApplied(i)

----------------------------------------------------------------------------
(* The headword lexicons after the automated passes *)

\* C28: after the HIGH, MEDIUM and quick-win passes every entry triaged HIGH
\* or MEDIUM with a headword of the adverb lexicon is an adverb, and every
\* such entry with a headword of the adjective lexicon, and not of the
\* adverb lexicon, is an adjective.
LexiconRuleStands ==
  pc \in AfterQuickwin =>
    \A row \in Members(wordbank_high_medium_quickwin_confirmed.rows) :
      row.entry_id \in Triaged("HIGH") \cup Triaged("MEDIUM") =>
        /\ row.headword_norm \in ADVERB_HEADWORDS => row.pos = "adverb"
        /\ row.headword_norm \in ADJECTIVE_HEADWORDS \ ADVERB_HEADWORDS =>
             row.pos = "adjective"

----------------------------------------------------------------------------
(* The votes behind an automated override *)

\* the changed records of the HIGH and MEDIUM passes that are no override by
\* a headword lexicon
VoteOverrides ==
  {c \in Members(pos_high_confirmations.rows) \cup Members(pos_medium_confirmations.rows) :
     c.changed /\ c.method \notin {"headword_adverb_override", "headword_adjective_override"}}

\* C29: a gloss-marker or secondary-vote override of the HIGH or MEDIUM pass
\* sets a POS with at least 3 votes of the entry's source rows, and a
\* quick-win change sets a POS with at least 2 votes and at least 0.6 times
\* the votes of the POS it replaces.
OverridesHaveVotes ==
  /\ \A c \in VoteOverrides :
       VotesFor(EntryOf(wordbank, c.entry_id), c.confirmed_pos) >= 3
  /\ \A q \in Members(pos_quickwin_confirmations.rows) :
       /\ VotesFor(EntryOf(wordbank, q.entry_id), q.confirmed_pos) >= 2
       /\ 10 * VotesFor(EntryOf(wordbank, q.entry_id), q.confirmed_pos)
            >= 6 * VotesFor(EntryOf(wordbank, q.entry_id), q.current_pos)

----------------------------------------------------------------------------
(* The aggregate figures of an entry *)

\* the score of a POS among the source rows of an entry, 0 for no POS
ScoreOf(row, pos) ==
  IF pos = "" THEN 0 ELSE PosScore(GroupOf(row.headword_norm), pos)

\* C30: at every checkpoint pos_vote_count of an entry is the number of
\* votes that pos_candidates records for its primary POS, and
\* pos_score_margin is the score of its primary POS minus the score of its
\* secondary POS.
FiguresDescribePrimary ==
  \A wb \in Checkpoints :
    \A row \in Members(wb.rows) :
      /\ row.pos_vote_count = VotesFor(row, row.pos)
      /\ row.pos_score_margin
           = Round2(ScoreOf(row, row.pos) - ScoreOf(row, row.pos_secondary))
====
